---- MODULE Spec2Model ----
(***************************************************************************)
(* Model of the project-editor drawing module (src/unnamed/part_000): the  *)
(* offscreen-canvas draw cache, the cache-key builder, and the primitive   *)
(* renderers that go through the cache.                                    *)
(*                                                                         *)
(* JavaScript strings are TLA+ strings (TLC concatenates them with \o and  *)
(* slices them with SubSeq), so a cache key is the very string the code    *)
(* builds.  An optional value (a property that may be undefined) is a      *)
(* sequence of length 0 or 1.                                              *)
(*                                                                         *)
(* The module also models three operations of the project editor: the      *)
(* class info of Project (src/unnamed/part_001:278-328), the check of an   *)
(* SCPI enum member (features/scpi/enum.ts:52-80) and load                 *)
(* (src/unnamed/part_001:390-409).                                         *)
(***************************************************************************)
EXTENDS Integers, Sequences, FiniteSets, TLC

VARIABLES
    styles,      \* the project's style registry: name -> Style object
    cache,       \* part_000:54   insertion queue of composite keys
    cacheMap,    \* part_000:55   composite key -> canvas
    nextCanvas,  \* identity of the next canvas document.createElement returns
    hung,        \* TRUE once a render callback has entered a loop it never leaves
    last,        \* the last top-level call: name, arguments, log, result
    inserted,    \* history: every composite key ever pushed, in push order
    renders,     \* history: composite key -> number of callback invocations
    evictions,   \* history: composite key -> number of times it was evicted
    hits,        \* history: stored keys that were looked up and found
    calls,       \* drawFromCache activations in progress: caller -> position and locals
    extensions,          \* keys of the registered "project-feature" extensions, in order
    projectClassInfo,    \* part_001:278  TRUE once the ClassInfo object exists
    numProjectFeatures,  \* part_001:279
    projectProperties,   \* part_001:280-288  the one array that builtinProjectProperties,
                         \* projectProperties and projectClassInfo.properties all name
    classInfoRead,       \* history: what the last read of Project.classInfo returned
    members,             \* enum.ts:90  the names of the members of one ScpiEnum
    messages,            \* the result of the last ScpiEnumMember.check
    loads,               \* part_001:390-409  file path -> promise and pending read
    project              \* part_001:402  window.EEZStudio.project

drawingVars ==
    <<styles, cache, cacheMap, nextCanvas, hung, last, inserted, renders, evictions, hits, calls>>
editorVars ==
    <<extensions, projectClassInfo, numProjectFeatures, projectProperties, classInfoRead,
      members, messages, loads, project>>
vars == <<drawingVars, editorVars>>

-----------------------------------------------------------------------------
(* Program constants and model bounds *)

MAX_DRAW_CACHE_SIZE == 1000

\* Free slots left in the queue of the warmed-up initial state.
Headroom == 1
\* Canvases one behaviour may allocate after the initial state.
MaxCanvases == 3
\* Largest value of the modification clock.
MaxClock == 2
\* Canvases one behaviour of the geometry runs may allocate.
DrawDepth == 2
\* Project-feature extensions one behaviour may register.
MaxFeatures == 3
\* Members one behaviour may add to the enum.
MaxMembers == 3

-----------------------------------------------------------------------------
(* Optional values and small helpers *)

None == <<>>
Some(v) == <<v>>

Max(a, b) == IF a >= b THEN a ELSE b
Min(a, b) == IF a <= b THEN a ELSE b

\* JavaScript's string conversion of an integer and of a boolean.
NumStr(n) == ToString(n)
BoolStr(b) == IF b THEN "true" ELSE "false"

\* text[i] with a 0-based index; "" past the end (undefined never equals a char).
CharAt(text, i) == IF i >= 0 /\ i < Len(text) THEN SubSeq(text, i + 1, i + 1) ELSE ""
\* text.substr(j, n)
Substr(text, j, n) == SubSeq(text, j + 1, Min(j + n, Len(text)))

UndefinedCanvas == [uid |-> 0, w |-> 0, h |-> 0, ops |-> <<>>]

-----------------------------------------------------------------------------
(* Fonts, styles and their registries (external collaborators) *)

\* A glyph's advance width; a character the font has no glyph for is 0 wide.
GlyphDx(font, ch) == IF ch \in DOMAIN font.glyphs THEN font.glyphs[ch] ELSE 0

Fonts ==
    [ med  |-> [kind |-> "Font", name |-> "med", _id |-> "7", _modificationTime |-> None,
                height |-> 8, glyphs |-> [c \in {"a", "b", "5", " ", "\\", "n", "\""} |-> 2] ],
      tiny |-> [kind |-> "Font", name |-> "tiny", _id |-> "8", _modificationTime |-> Some(1),
                height |-> 1, glyphs |-> [c \in {"a", "b", "5", " "} |-> 1] ] ]

\* findFont(name): the font of that name, if any.
findFont(name) == IF name \in DOMAIN Fonts THEN Some(Fonts[name]) ELSE None

\* findStyle(name) in the registry reg.
findStyle(reg, name) == IF name \in DOMAIN reg THEN Some(reg[name]) ELSE None

DefaultStyleName == "default"

\* getDefaultStyle(): the process-wide default style.
getDefaultStyle(reg) == reg[DefaultStyleName]

\* getStyleProperty(style, propertyName): the style's own value, else the value
\* resolved along inheritFrom, else the default style's; None when all lack it.
\* seen holds the styles already visited on this chain.
RECURSIVE StylePropertyFrom(_, _, _, _)
StylePropertyFrom(reg, style, propertyName, seen) ==
    IF propertyName \in DOMAIN style.props
    THEN Some(style.props[propertyName])
    ELSE LET parent == IF style.inheritFrom # "" THEN findStyle(reg, style.inheritFrom) ELSE None
         IN IF parent # None /\ parent[1].name \notin seen
            THEN StylePropertyFrom(reg, parent[1], propertyName, seen \cup {style.name})
            ELSE IF propertyName \in DOMAIN getDefaultStyle(reg).props
                 THEN Some(getDefaultStyle(reg).props[propertyName])
                 ELSE None

getStyleProperty(reg, style, propertyName) == StylePropertyFrom(reg, style, propertyName, {})

\* `x || 0` on a numeric property: undefined and 0 both give 0.
OrZero(opt) == IF opt = None THEN 0 ELSE opt[1]
\* A colour property as handed to lcd.setColor (undefined stays visible).
Colour(opt) == IF opt = None THEN "undefined" ELSE opt[1]

styleGetBorderSize(reg, style) == getStyleProperty(reg, style, "borderSize")
styleGetBorderRadius(reg, style) == getStyleProperty(reg, style, "borderRadius")
styleIsHorzAlignLeft(reg, style) == getStyleProperty(reg, style, "alignHorizontal") = Some("left")
\* Mutant: "right" is not recognised (such text is centred).
styleIsHorzAlignRight_Never(reg, style) == FALSE
styleIsHorzAlignRight(reg, style) == getStyleProperty(reg, style, "alignHorizontal") = Some("right")
styleIsVertAlignTop(reg, style) == getStyleProperty(reg, style, "alignVertical") = Some("top")
styleIsVertAlignBottom(reg, style) == getStyleProperty(reg, style, "alignVertical") = Some("bottom")

styleGetFont(reg, style) ==
    LET font == getStyleProperty(reg, style, "font")
    IN IF font = None \/ font[1] = "" THEN None ELSE findFont(font[1])

-----------------------------------------------------------------------------
(* Cache-key builder *)

\* part_000:102-132.  The result is [ok, id]; ok is FALSE when the recursion
\* re-enters a style that is still on the call stack (it then never returns a
\* string: the same call recurs with the same registry).
BaseCacheId(obj) ==
    IF obj._modificationTime # None
    THEN obj._id \o "-" \o NumStr(obj._modificationTime[1])
    ELSE obj._id

\* part_000:122 and 126: id += "," + getCacheId(...)
appendCacheId(id, sub) == [ok |-> sub.ok, id |-> id \o "," \o sub.id]

\* Mutant: a style without a resolvable parent ends the id; the default
\* style's id is not appended.
RECURSIVE CacheIdFrom_NoDefault(_, _, _)
CacheIdFrom_NoDefault(reg, obj, stack) ==
    LET id0 == BaseCacheId(obj)
    IN IF obj.kind # "Style" THEN [ok |-> TRUE, id |-> id0]
       ELSE IF obj.name \in stack THEN [ok |-> FALSE, id |-> ""]
       ELSE
        LET font == styleGetFont(reg, obj)
            id1 == IF font # None THEN id0 \o CacheIdFrom_NoDefault(reg, font[1], stack).id ELSE id0
            next == IF obj.inheritFrom # "" THEN findStyle(reg, obj.inheritFrom) ELSE None
        IN IF next = None THEN [ok |-> TRUE, id |-> id1]
           ELSE appendCacheId(id1, CacheIdFrom_NoDefault(reg, next[1], stack \cup {obj.name}))

\* Mutant: an inheritFrom that names no style ends the id; only a style
\* without inheritFrom falls back to the default style.
RECURSIVE CacheIdFrom_MissingEndsId(_, _, _)
CacheIdFrom_MissingEndsId(reg, obj, stack) ==
    LET id0 == BaseCacheId(obj)
    IN IF obj.kind # "Style" THEN [ok |-> TRUE, id |-> id0]
       ELSE IF obj.name \in stack THEN [ok |-> FALSE, id |-> ""]
       ELSE
        LET font == styleGetFont(reg, obj)
            id1 == IF font # None THEN id0 \o CacheIdFrom_MissingEndsId(reg, font[1], stack).id ELSE id0
            next == IF obj.inheritFrom # "" THEN findStyle(reg, obj.inheritFrom)
                    ELSE IF obj.name # DefaultStyleName THEN Some(getDefaultStyle(reg))
                    ELSE None
        IN IF next = None THEN [ok |-> TRUE, id |-> id1]
           ELSE appendCacheId(id1, CacheIdFrom_MissingEndsId(reg, next[1], stack \cup {obj.name}))

RECURSIVE CacheIdFrom(_, _, _)
CacheIdFrom(reg, obj, stack) ==
    LET id0 == BaseCacheId(obj)
    IN IF obj.kind # "Style" THEN [ok |-> TRUE, id |-> id0]
       ELSE IF obj.name \in stack THEN [ok |-> FALSE, id |-> ""]
       ELSE
        LET font == styleGetFont(reg, obj)
            id1 == IF font # None THEN id0 \o CacheIdFrom(reg, font[1], stack).id ELSE id0
            inheritFromStyle == IF obj.inheritFrom # "" THEN findStyle(reg, obj.inheritFrom) ELSE None
            next == IF inheritFromStyle # None THEN inheritFromStyle
                    ELSE IF obj.name # DefaultStyleName THEN Some(getDefaultStyle(reg))
                    ELSE None
        IN IF next = None THEN [ok |-> TRUE, id |-> id1]
           ELSE appendCacheId(id1, CacheIdFrom(reg, next[1], stack \cup {obj.name}))

getCacheId(reg, obj) == CacheIdFrom(reg, obj, {}).id
\* Whether getCacheId(obj) returns at all.
CacheIdReturns(reg, obj) == CacheIdFrom(reg, obj, {}).ok

-----------------------------------------------------------------------------
(* The lcd module and the 2D context (external collaborators).  A canvas     *)
(* records the operations painted on it, each with the colours in force.    *)
(* c is the running call: c.st the program state it threads (registry,      *)
(* queue, map, canvas allocator, lcd colours, log), c.ops the operations    *)
(* painted so far on the canvas of the innermost render.                    *)

setColor(c, color) == [c EXCEPT !.st.color = color]
setBackColor(c, color) == [c EXCEPT !.st.backColor = color]

fillRect(c, x1, y1, x2, y2, r) ==
    [c EXCEPT !.ops = Append(@, [op |-> "fillRect", color |-> c.st.color,
                                 x1 |-> x1, y1 |-> y1, x2 |-> x2, y2 |-> y2, r |-> r])]

drawStr(c, text, x, y, font) ==
    [c EXCEPT !.ops = Append(@, [op |-> "drawStr", color |-> c.st.color,
                                 backColor |-> c.st.backColor, text |-> text,
                                 x |-> x, y |-> y, font |-> font.name])]

drawVLine(c, x, y, l) ==
    [c EXCEPT !.ops = Append(@, [op |-> "drawVLine", color |-> c.st.color,
                                 x |-> x, y |-> y, l |-> l])]

drawHLine(c, x, y, l) ==
    [c EXCEPT !.ops = Append(@, [op |-> "drawHLine", color |-> c.st.color,
                                 x |-> x, y |-> y, l |-> l])]

\* lcd.drawBitmap(ctx, imageElement, x, y, width, height)
lcdDrawBitmap(c, imageElement, x, y, width, height) ==
    [c EXCEPT !.ops = Append(@, [op |-> "drawBitmap", image |-> imageElement.name,
                                 x |-> x, y |-> y, width |-> width, height |-> height])]

\* ctx.drawImage(canvas, x, y)
drawImage(c, canvas, x, y) ==
    [c EXCEPT !.ops = Append(@, [op |-> "drawImage", src |-> canvas.uid, x |-> x, y |-> y])]

\* lcd.measureStr(text, font, maxWidth): the sum of the glyph advances, cut to
\* maxWidth when maxWidth > 0 and the next glyph would pass it.
RECURSIVE MeasureFrom(_, _, _, _, _)
MeasureFrom(text, font, maxWidth, i, width) ==
    IF i >= Len(text) THEN width
    ELSE LET gw == GlyphDx(font, CharAt(text, i))
         IN IF maxWidth > 0 /\ width + gw > maxWidth THEN maxWidth
            ELSE MeasureFrom(text, font, maxWidth, i + 1, width + gw)

measureStr(text, font, maxWidth) == MeasureFrom(text, font, maxWidth, 0, 0)

\* JSON.parse('"' + text + '"'): [ok, text].  A raw quote, a raw control
\* character, a backslash followed by anything but an escape letter, and a
\* trailing backslash (it escapes the closing quote) are syntax errors.
JsonEscapes == [c \in {"\"", "\\", "/", "n", "t", "r", "f"} |->
                  CASE c = "n" -> "\n" [] c = "t" -> "\t" [] c = "r" -> "\r"
                    [] c = "f" -> "\f" [] OTHER -> c]

RECURSIVE JsonUnescapeFrom(_, _, _)
JsonUnescapeFrom(text, i, out) ==
    IF i >= Len(text) THEN [ok |-> TRUE, text |-> out]
    ELSE LET ch == CharAt(text, i)
         IN IF ch \in {"\"", "\n", "\t", "\r", "\f"} THEN [ok |-> FALSE, text |-> text]
            ELSE IF ch = "\\"
                 THEN IF CharAt(text, i + 1) \in DOMAIN JsonEscapes
                      THEN JsonUnescapeFrom(text, i + 2, out \o JsonEscapes[CharAt(text, i + 1)])
                      ELSE [ok |-> FALSE, text |-> text]
                 ELSE JsonUnescapeFrom(text, i + 1, out \o ch)

JsonParseString(text) == JsonUnescapeFrom(text, 0, "")

\* part_000:182-186 and 262-266: try { text = JSON.parse(...) } catch { log }.
unescapeText(text) ==
    LET parsed == JsonParseString(text)
    IN IF parsed.ok THEN parsed.text ELSE text

-----------------------------------------------------------------------------
(* Bitmap draw cache *)

\* Mutant: the lookup never finds the key.
MapGet_AlwaysMiss(map, key) == UndefinedCanvas

\* cacheMap.get(key)
MapGet(map, key) == IF key \in DOMAIN map THEN map[key] ELSE UndefinedCanvas
\* cacheMap.set(key, canvas)
\* Mutant: a key that is in the map keeps its canvas (the first write wins).
MapSet_KeepFirst(map, key, canvas) ==
    IF key \in DOMAIN map THEN map ELSE (key :> canvas) @@ map

MapSet(map, key, canvas) ==
    [k \in DOMAIN map \cup {key} |-> IF k = key THEN canvas ELSE map[k]]
\* Mutant: delete leaves the map as it is.
MapDelete_Keep(map, key) == map
\* cacheMap.delete(key)
MapDelete(map, key) == [k \in DOMAIN map \ {key} |-> map[k]]

Logged(st, ev, key, uid) ==
    [st EXCEPT !.log = Append(@, [ev |-> ev, key |-> key, uid |-> uid])]

\* Mutant: the queue is trimmed only once it is longer than the capacity.
cacheStore_OffByOne(st, id, canvas) ==
    LET full == Len(st.cache) > MAX_DRAW_CACHE_SIZE
    IN [Logged(st, "store", id, canvas.uid) EXCEPT
            !.cache = Append(IF full THEN Tail(st.cache) ELSE st.cache, id),
            !.cacheMap = MapSet(IF full THEN MapDelete(st.cacheMap, Head(st.cache))
                                ELSE st.cacheMap, id, canvas)]

\* Mutant: at capacity the newest key is dropped (cache.pop()) instead of the
\* oldest (cache.shift()).
cacheStore_EvictNewest(st, id, canvas) ==
    LET full == Len(st.cache) = MAX_DRAW_CACHE_SIZE
        cacheKey == IF full THEN st.cache[Len(st.cache)] ELSE ""
        popped == IF full THEN SubSeq(st.cache, 1, Len(st.cache) - 1) ELSE st.cache
        deleted == IF full THEN MapDelete(st.cacheMap, cacheKey) ELSE st.cacheMap
        st1 == IF full THEN Logged(st, "evict", cacheKey, 0) ELSE st
    IN [Logged(st1, "store", id, canvas.uid) EXCEPT
            !.cache = Append(popped, id),
            !.cacheMap = MapSet(deleted, id, canvas)]

\* Mutant: the oldest key is dropped one entry before the queue is full.
cacheStore_EvictEarly(st, id, canvas) ==
    LET full == Len(st.cache) >= MAX_DRAW_CACHE_SIZE - 1
        cacheKey == IF full /\ st.cache # <<>> THEN Head(st.cache) ELSE ""
        shifted == IF full /\ st.cache # <<>> THEN Tail(st.cache) ELSE st.cache
        deleted == IF full /\ cacheKey # "" THEN MapDelete(st.cacheMap, cacheKey) ELSE st.cacheMap
        st1 == IF full /\ cacheKey # "" THEN Logged(st, "evict", cacheKey, 0) ELSE st
    IN [Logged(st1, "store", id, canvas.uid) EXCEPT
            !.cache = Append(shifted, id),
            !.cacheMap = MapSet(deleted, id, canvas)]

\* part_000:81-91: the store on a miss with a non-null id.  cache.shift() of an
\* empty queue gives undefined, and an empty string key is falsy too.
cacheStore(st, id, canvas) ==
    LET full == Len(st.cache) = MAX_DRAW_CACHE_SIZE
        cacheKey == IF full /\ st.cache # <<>> THEN Head(st.cache) ELSE ""
        shifted == IF full /\ st.cache # <<>> THEN Tail(st.cache) ELSE st.cache
        deleted == IF full /\ cacheKey # "" THEN MapDelete(st.cacheMap, cacheKey) ELSE st.cacheMap
        st1 == IF full /\ cacheKey # "" THEN Logged(st, "evict", cacheKey, 0) ELSE st
    IN [Logged(st1, "store", id, canvas.uid) EXCEPT
            !.cache = Append(shifted, id),
            !.cacheMap = MapSet(deleted, id, canvas)]

RECURSIVE drawFromCache(_, _, _, _, _, _)

-----------------------------------------------------------------------------
(* Primitive renderers *)

\* A numeric or string property the code uses without a fallback.
Prop(reg, style, name) == getStyleProperty(reg, style, name)[1]

\* Mutant: the inner radius is not floored at 0.
borderInset_NoFloor(c, style, w, h) ==
    LET reg == c.st.styles
        borderSize == OrZero(styleGetBorderSize(reg, style))
        borderRadius == OrZero(styleGetBorderRadius(reg, style))
    IN IF borderSize > 0
       THEN [c |-> fillRect(setColor(c, Colour(getStyleProperty(reg, style, "borderColor"))),
                            0, 0, w - 1, h - 1, borderRadius),
             x1 |-> borderSize, y1 |-> borderSize,
             x2 |-> w - 1 - borderSize, y2 |-> h - 1 - borderSize,
             borderRadius |-> borderRadius - borderSize]
       ELSE [c |-> c, x1 |-> 0, y1 |-> 0, x2 |-> w - 1, y2 |-> h - 1,
             borderRadius |-> borderRadius]

\* part_000:150-165 (the same lines open every bordered renderer): the border
\* fill and the inset rectangle.
borderInset(c, style, w, h) ==
    LET reg == c.st.styles
        borderSize == OrZero(styleGetBorderSize(reg, style))
        borderRadius == OrZero(styleGetBorderRadius(reg, style))
    IN IF borderSize > 0
       THEN [c |-> fillRect(setColor(c, Colour(getStyleProperty(reg, style, "borderColor"))),
                            0, 0, w - 1, h - 1, borderRadius),
             x1 |-> borderSize, y1 |-> borderSize,
             x2 |-> w - 1 - borderSize, y2 |-> h - 1 - borderSize,
             borderRadius |-> Max(borderRadius - borderSize, 0)]
       ELSE [c |-> c, x1 |-> 0, y1 |-> 0, x2 |-> w - 1, y2 |-> h - 1,
             borderRadius |-> borderRadius]

\* part_000:167-216: the fill and the text of drawText inside the inset
\* rectangle g.
drawTextContent(g, text, style, inverse, overrideBackgroundColor) ==
    LET reg == g.c.st.styles
        styleColor == Colour(getStyleProperty(reg, style, "color"))
        styleBackgroundColor ==
            IF overrideBackgroundColor # None
            THEN overrideBackgroundColor[1]
            ELSE Colour(getStyleProperty(reg, style, "backgroundColor"))
        backgroundColor == IF inverse THEN styleColor ELSE styleBackgroundColor
        c1 == fillRect(setColor(g.c, backgroundColor), g.x1, g.y1, g.x2, g.y2, g.borderRadius)
        font == styleGetFont(reg, style)
    IN IF font = None THEN c1
       ELSE
        LET t == unescapeText(text)
            width == measureStr(t, font[1], g.x2 - g.x1 + 1)
            height == font[1].height
            x_offset ==
                IF styleIsHorzAlignLeft(reg, style)
                THEN g.x1 + Prop(reg, style, "paddingHorizontal")
                ELSE IF styleIsHorzAlignRight(reg, style)
                THEN g.x2 - Prop(reg, style, "paddingHorizontal") - width
                ELSE (2 * g.x1 + (g.x2 - g.x1 + 1 - width)) \div 2
            y_offset ==
                IF styleIsVertAlignTop(reg, style)
                THEN g.y1 + Prop(reg, style, "paddingVertical")
                ELSE IF styleIsVertAlignBottom(reg, style)
                THEN g.y2 - Prop(reg, style, "paddingVertical") - height
                ELSE (2 * g.y1 + (g.y2 - g.y1 + 1 - height)) \div 2
            c2 == IF inverse
                  THEN setColor(setBackColor(c1, styleColor), styleBackgroundColor)
                  ELSE setColor(setBackColor(c1, styleBackgroundColor), styleColor)
        IN drawStr(c2, t, x_offset, y_offset, font[1])

\* part_000:149-217: the render callback of drawText.
drawTextCallback(c, text, w, h, style, inverse, overrideBackgroundColor) ==
    drawTextContent(borderInset(c, style, w, h), text, style, inverse, overrideBackgroundColor)

\* part_000:144-148: the cache key of drawText and of drawMultilineText.
textCacheKey(reg, text, w, h, style, inverse) ==
    getCacheId(reg, style) \o "." \o text \o "." \o NumStr(w) \o "." \o NumStr(h)
        \o "." \o BoolStr(inverse)

\* part_000:136-219
drawText(st, text, w, h, style, inverse, overrideBackgroundColor) ==
    drawFromCache(st, "drawText",
        Some(textCacheKey(st.styles, text, w, h, style, inverse)), w, h,
        [fn |-> "drawText", text |-> text, w |-> w, h |-> h, style |-> style,
         inverse |-> inverse, overrideBackgroundColor |-> overrideBackgroundColor])

\* part_000:284-286: the index of the first space or newline at or after i.
RECURSIVE wordEnd(_, _)
wordEnd(text, i) ==
    IF i < Len(text) /\ CharAt(text, i) # " " /\ CharAt(text, i) # "\n"
    THEN wordEnd(text, i + 1)
    ELSE i

\* Mutant: the wrap moves the pen down without returning it to x1.
RECURSIVE wrapLoop_KeepColumn(_, _, _, _, _, _, _)
wrapLoop_KeepColumn(width, x, y, x1, x2, y2, height) ==
    IF ~(width > x2 - x + 1) THEN [x |-> x, y |-> y, hung |-> FALSE]
    ELSE IF (y + height) + height > y2 THEN [x |-> x, y |-> y + height, hung |-> FALSE]
    ELSE [x |-> x, y |-> y + height, hung |-> FALSE]

\* part_000:290-297: the wrap loop.  It returns [x, y, hung]; hung is TRUE when
\* an iteration ends in the state it began in (x = x1 and height = 0 while the
\* word still does not fit), from where the loop repeats without end.
RECURSIVE wrapLoop(_, _, _, _, _, _, _)
wrapLoop(width, x, y, x1, x2, y2, height) ==
    IF ~(width > x2 - x + 1) THEN [x |-> x, y |-> y, hung |-> FALSE]
    ELSE IF (y + height) + height > y2 THEN [x |-> x, y |-> y + height, hung |-> FALSE]
    ELSE IF x = x1 /\ height = 0 THEN [x |-> x, y |-> y, hung |-> TRUE]
    ELSE wrapLoop(width, x1, y + height, x1, x2, y2, height)

\* part_000:315-318: the spaces after a word.
RECURSIVE skipSpaces(_, _, _, _)
skipSpaces(text, i, x, spaceWidth) ==
    IF CharAt(text, i) = " "
    THEN skipSpaces(text, i + 1, x + spaceWidth, spaceWidth)
    ELSE [i |-> i, x |-> x]

\* part_000:282-338: the word loop, from character i with the pen at (x, y).
\* m holds what the loop does not change.
RECURSIVE wordLoop(_, _, _, _, _)

\* Mutant: a paragraph starts one line height below, without the extra
\* height between paragraphs.
afterWord_NoParagraphGap(c, m, sp, y) ==
    IF sp.i = Len(m.text) THEN c
    ELSE IF CharAt(m.text, sp.i) = "\n"
    THEN IF y + m.height + m.height > m.y2
         THEN c
         ELSE wordLoop(c, m, sp.i + 1, m.x1, y + m.height)
    ELSE wordLoop(c, m, sp.i, sp.x, y)

\* part_000:315-337: after the word was drawn (c) at wr.y: the spaces that
\* follow it (sp), then the end of the text or of the paragraph.
afterWord(c, m, sp, y) ==
    LET extraHeightBetweenParagraphs == (2 * m.height) \div 10
    IN IF sp.i = Len(m.text) THEN c
       ELSE IF CharAt(m.text, sp.i) = "\n"
       THEN IF y + m.height + extraHeightBetweenParagraphs + m.height > m.y2
            THEN c
            ELSE wordLoop(c, m, sp.i + 1, m.x1, y + m.height + extraHeightBetweenParagraphs)
       ELSE wordLoop(c, m, sp.i, sp.x, y)

\* Mutant: the words are drawn in the colours of inverse = false whatever
\* inverse is.
placeWord_NoSwap(c, m, word, width, i1, wr) ==
    IF wr.hung THEN [c EXCEPT !.st.hung = TRUE]
    ELSE IF wr.y + m.height > m.y2 THEN c
    ELSE afterWord(drawStr(setColor(setBackColor(c, m.backgroundColor), m.color),
                           word, wr.x, wr.y, m.font),
                   m, skipSpaces(m.text, i1, wr.x + width, m.spaceWidth), wr.y)

\* part_000:299-313: the word, of that width and ending at i1, after the
\* wrap loop left the pen at wr.
placeWord(c, m, word, width, i1, wr) ==
    IF wr.hung THEN [c EXCEPT !.st.hung = TRUE]
    ELSE IF wr.y + m.height > m.y2 THEN c
    ELSE afterWord(drawStr(IF m.inverse
                           THEN setColor(setBackColor(c, m.color), m.backgroundColor)
                           ELSE setColor(setBackColor(c, m.backgroundColor), m.color),
                           word, wr.x, wr.y, m.font),
                   m, skipSpaces(m.text, i1, wr.x + width, m.spaceWidth), wr.y)

\* part_000:288-297
measureWord(c, m, word, width, i1, x, y) ==
    placeWord(c, m, word, width, i1, wrapLoop(width, x, y, m.x1, m.x2, m.y2, m.height))

\* part_000:283-288
scanWord(c, m, j, i1, x, y) ==
    measureWord(c, m, Substr(m.text, j, i1 - j),
                measureStr(Substr(m.text, j, i1 - j), m.font, 0), i1, x, y)

wordLoop(c, m, i, x, y) == scanWord(c, m, i, wordEnd(m.text, i), x, y)

\* part_000:251-338: the fill and the words of drawMultilineText inside the
\* inset rectangle g.
drawMultilineTextContent(g, text, style, inverse) ==
    LET reg == g.c.st.styles
        color == Colour(getStyleProperty(reg, style, "color"))
        styleBackgroundColor == Colour(getStyleProperty(reg, style, "backgroundColor"))
        backgroundColor == IF inverse THEN color ELSE styleBackgroundColor
        c1 == fillRect(setColor(g.c, backgroundColor), g.x1, g.y1, g.x2, g.y2, g.borderRadius)
        font == styleGetFont(reg, style)
    IN IF font = None THEN c1
       ELSE
        LET paddingHorizontal == Prop(reg, style, "paddingHorizontal")
            paddingVertical == Prop(reg, style, "paddingVertical")
            m == [text |-> unescapeText(text), font |-> font[1],
                  height |-> (9 * font[1].height) \div 10,
                  x1 |-> g.x1 + paddingHorizontal, x2 |-> g.x2 - paddingHorizontal,
                  y2 |-> g.y2 - paddingVertical,
                  spaceWidth |-> GlyphDx(font[1], " "),
                  inverse |-> inverse, color |-> color,
                  backgroundColor |-> styleBackgroundColor]
        IN wordLoop(c1, m, 0, m.x1, g.y1 + paddingVertical)

\* part_000:233-339: the render callback of drawMultilineText.
drawMultilineTextCallback(c, text, w, h, style, inverse) ==
    drawMultilineTextContent(borderInset(c, style, w, h), text, style, inverse)

\* part_000:221-341
drawMultilineText(st, text, w, h, style, inverse) ==
    drawFromCache(st, "drawMultilineText",
        Some(textCacheKey(st.styles, text, w, h, style, inverse)), w, h,
        [fn |-> "drawMultilineText", text |-> text, w |-> w, h |-> h, style |-> style,
         inverse |-> inverse])

\* part_000:432-456: the render callback of drawRectangle.
drawRectangleCallback(c, w, h, style, inverse) ==
    LET reg == c.st.styles
        g == borderInset(c, style, w, h)
        fill == IF inverse
                THEN Colour(getStyleProperty(reg, style, "backgroundColor"))
                ELSE Colour(getStyleProperty(reg, style, "color"))
    IN fillRect(setColor(g.c, fill), g.x1, g.y1, g.x2, g.y2, g.borderRadius)

\* part_000:429
rectangleCacheKey(reg, w, h, style, inverse) ==
    getCacheId(reg, style) \o "." \o NumStr(w) \o "." \o NumStr(h) \o "." \o BoolStr(inverse)

\* Mutant: the size test lets a zero dimension through.
drawRectangle_NonNegative(st, w, h, style, inverse) ==
    IF w >= 0 /\ h >= 0
    THEN drawFromCache(st, "drawRectangle",
            Some(rectangleCacheKey(st.styles, w, h, style, inverse)), w, h,
            [fn |-> "drawRectangle", w |-> w, h |-> h, style |-> style, inverse |-> inverse])
    ELSE [st |-> st, canvas |-> UndefinedCanvas]

\* part_000:425-460
drawRectangle(st, w, h, style, inverse) ==
    IF w > 0 /\ h > 0
    THEN drawFromCache(st, "drawRectangle",
            Some(rectangleCacheKey(st.styles, w, h, style, inverse)), w, h,
            [fn |-> "drawRectangle", w |-> w, h |-> h, style |-> style, inverse |-> inverse])
    ELSE [st |-> st, canvas |-> UndefinedCanvas]

\* part_000:948-968 and 1038-1058: the render callback of drawYTGraphWidget and
\* of drawListGraphWidget.
drawGraphCallback(c, style, rect) ==
    LET g == borderInset(c, style, rect.width, rect.height)
    IN fillRect(setColor(g.c, Colour(getStyleProperty(c.st.styles, style, "backgroundColor"))),
                g.x1, g.y1, g.x2, g.y2, g.borderRadius)

\* part_000:374-418: the fills and the image of drawBitmap inside the inset
\* rectangle g.  The second fill is called without a radius.
drawBitmapContent(g, imageElement, bitmapBackgroundColor, style, inverse) ==
    LET reg == g.c.st.styles
        color == Colour(getStyleProperty(reg, style, "color"))
        styleBackgroundColor == Colour(getStyleProperty(reg, style, "backgroundColor"))
        backgroundColor == IF inverse THEN color ELSE styleBackgroundColor
        width == imageElement.width
        height == imageElement.height
        x_offset ==
            IF styleIsHorzAlignLeft(reg, style)
            THEN g.x1 + Prop(reg, style, "paddingHorizontal")
            ELSE IF styleIsHorzAlignRight(reg, style)
            THEN g.x2 - Prop(reg, style, "paddingHorizontal") - width
            ELSE (2 * g.x1 + (g.x2 - g.x1 - width)) \div 2
        y_offset ==
            IF styleIsVertAlignTop(reg, style)
            THEN g.y1 + Prop(reg, style, "paddingVertical")
            ELSE IF styleIsVertAlignBottom(reg, style)
            THEN g.y2 - Prop(reg, style, "paddingVertical") - height
            ELSE (2 * g.y1 + (g.y2 - g.y1 - height)) \div 2
    IN lcdDrawBitmap(
         fillRect(
           setColor(
             setColor(
               setBackColor(
                 fillRect(
                   fillRect(setColor(g.c, backgroundColor), g.x1, g.y1, g.x2, g.y2,
                            g.borderRadius),
                   g.x1, g.y1, g.x2, g.y2, 0),
                 IF inverse THEN color ELSE styleBackgroundColor),
               IF inverse THEN styleBackgroundColor ELSE color),
             IF bitmapBackgroundColor # "" THEN bitmapBackgroundColor ELSE "transparent"),
           x_offset, y_offset, x_offset + width - 1, y_offset + height - 1, 0),
         imageElement, x_offset, y_offset, width, height)

\* part_000:355-419: the render callback of drawBitmap.
drawBitmapCallback(c, bitmap, w, h, style, inverse) ==
    drawBitmapContent(borderInset(c, style, w, h), bitmap.imageElement[1],
                      bitmap.backgroundColor, style, inverse)

\* part_000:353
bitmapCacheKey(reg, bitmap, w, h, style, inverse) ==
    getCacheId(reg, style) \o "." \o getCacheId(reg, bitmap) \o "." \o "." \o NumStr(w)
        \o "." \o NumStr(h) \o "." \o BoolStr(inverse)

\* part_000:345-421
drawBitmap(st, bitmap, w, h, style, inverse) ==
    IF bitmap.imageElement = None
    THEN [st |-> st, canvas |-> UndefinedCanvas]
    ELSE drawFromCache(st, "drawBitmap",
            Some(bitmapCacheKey(st.styles, bitmap, w, h, style, inverse)), w, h,
            [fn |-> "drawBitmap", bitmap |-> bitmap, w |-> w, h |-> h, style |-> style,
             inverse |-> inverse])

\* part_000:936-970
drawYTGraphWidget(st, style, rect) ==
    drawFromCache(st, "drawYTGraphWidget", None, rect.width, rect.height,
        [fn |-> "drawGraph", style |-> style, rect |-> rect])

\* part_000:1026-1060
drawListGraphWidget(st, style, rect) ==
    drawFromCache(st, "drawListGraphWidget", None, rect.width, rect.height,
        [fn |-> "drawGraph", style |-> style, rect |-> rect])

\* buttonLabels.join(",")
RECURSIVE joinLabels(_)
joinLabels(labels) ==
    IF labels = <<>> THEN ""
    ELSE IF Len(labels) = 1 THEN labels[1]
    ELSE labels[1] \o "," \o joinLabels(Tail(labels))

\* part_000:558-571 and 582-595: the button loop, from button i (0-based) with
\* the pen at (x, y); dx and dy are the pitch, bw x bh the size of a label.
\* ctx.drawImage(<a nested render r = [st, canvas]>, x, y): the nested call ran
\* first and left the program state r.st.
drawNested(c, r, x, y) == drawImage([c EXCEPT !.st = r.st], r.canvas, x, y)

RECURSIVE buttonLoop(_, _, _, _, _, _, _, _, _, _, _)
buttonLoop(c, buttonLabels, selectedButton, style, i, x, y, dx, dy, bw, bh) ==
    IF i >= Len(buttonLabels) THEN c
    ELSE buttonLoop(drawNested(c, drawText(c.st, buttonLabels[i + 1], bw, bh, style,
                                           i = selectedButton, None), x, y),
                    buttonLabels, selectedButton, style, i + 1,
                    x + dx, y + dy, dx, dy, bw, bh)

\* Mutant: the group is not centred, the first button is at the origin.
drawButtonGroupCallback_NotCentred(c, buttonLabels, selectedButton, style, rect) ==
    LET w == rect.width
        h == rect.height
        n == Len(buttonLabels)
    IN IF n = 0 THEN c
       ELSE IF w > h
       THEN buttonLoop(c, buttonLabels, selectedButton, style, 0,
                       0, 0, w \div n, 0, w \div n, h)
       ELSE buttonLoop(c, buttonLabels, selectedButton, style, 0,
                       0, (h \div n - Min(w, h \div n)) \div 2, 0, h \div n,
                       w, Min(w, h \div n))

\* part_000:547-597: the render callback of drawButtonGroupWidget.  With no
\* labels neither loop runs.
drawButtonGroupCallback(c, buttonLabels, selectedButton, style, rect) ==
    LET w == rect.width
        h == rect.height
        n == Len(buttonLabels)
    IN IF n = 0 THEN c
       ELSE IF w > h
       THEN LET buttonWidth == w \div n
            IN buttonLoop(c, buttonLabels, selectedButton, style, 0,
                          (w - buttonWidth * n) \div 2, 0, buttonWidth, 0, buttonWidth, h)
       ELSE LET buttonHeight == h \div n
                labelHeight == Min(w, buttonHeight)
                yOffset == (buttonHeight - labelHeight) \div 2
            IN buttonLoop(c, buttonLabels, selectedButton, style, 0,
                          0, (h - buttonHeight * n) \div 2 + yOffset, 0, buttonHeight,
                          w, labelHeight)

\* part_000:534-542
buttonGroupCacheKey(reg, buttonLabels, selectedButton, style, rect) ==
    getCacheId(reg, style) \o "." \o joinLabels(buttonLabels) \o "." \o NumStr(selectedButton)
        \o "." \o NumStr(rect.width) \o "." \o NumStr(rect.height)

\* part_000:526-599, with the widget's data already read: buttonLabels is
\* data.getValueList(widget.data) || [], selectedButton is data.get(widget.data) || 0.
drawButtonGroupWidget(st, buttonLabels, selectedButton, style, rect) ==
    drawFromCache(st, "drawButtonGroup",
        Some(buttonGroupCacheKey(st.styles, buttonLabels, selectedButton, style, rect)),
        rect.width, rect.height,
        [fn |-> "drawButtonGroup", buttonLabels |-> buttonLabels,
         selectedButton |-> selectedButton, style |-> style, rect |-> rect])

\* JavaScript's NaN, as a value apart from every number the model computes.
NaN == -(10 * 1000 * 1000)
JsAdd(a, b) == IF a = NaN \/ b = NaN THEN NaN ELSE a + b
JsSub(a, b) == IF a = NaN \/ b = NaN THEN NaN ELSE a - b
\* a <= b, a == b: false when either side is NaN
JsLe(a, b) == a # NaN /\ b # NaN /\ a <= b

\* part_000:843-852: Math.round((value * d) / (max - min)), then the two clamps.
\* A division by zero gives NaN for 0/0 and an infinity otherwise; Math.round
\* rounds halves up.
calcPos(value, d, min, max) ==
    LET num == value * d
        den == max - min
        n == IF den < 0 THEN -num ELSE num
        m == IF den < 0 THEN -den ELSE den
    IN IF den = 0
       THEN IF num = 0 THEN NaN
            ELSE IF num < 0 THEN IF 0 > d THEN d ELSE 0
            ELSE d
       ELSE LET pos == (2 * n + m) \div (2 * m)
                pos1 == IF pos < 0 THEN 0 ELSE pos
            IN IF pos1 > d THEN d ELSE pos1

\* part_000:907-926: one threshold line.  lineValue is
\* (lineData && parseFloat(data.get(lineData))) || 0, NaN replaced by 0.
drawLine(c, b, rect, lineValue, lineStyle) ==
    LET horizontal == b.orientation \in {"left-right", "right-left"}
        d == IF horizontal THEN rect.width ELSE rect.height
        pos0 == calcPos(lineValue, d, b.min, b.max)
        pos == IF pos0 # NaN /\ pos0 = d THEN d - 1 ELSE pos0
        c1 == setColor(c, Colour(getStyleProperty(c.st.styles, lineStyle, "color")))
    IN CASE b.orientation = "left-right" -> drawVLine(c1, pos, 0, rect.height - 1)
         [] b.orientation = "right-left" -> drawVLine(c1, JsSub(rect.width, pos), 0, rect.height - 1)
         [] b.orientation = "top-bottom" -> drawHLine(c1, 0, pos, rect.width - 1)
         [] OTHER -> drawHLine(c1, 0, JsSub(rect.height, pos), rect.width - 1)

\* part_000:856-876: the bar and the rest of the widget.
drawBar(c, b, rect, pos) ==
    LET reg == c.st.styles
        color == Colour(getStyleProperty(reg, b.style, "color"))
        backgroundColor == Colour(getStyleProperty(reg, b.style, "backgroundColor"))
        W == rect.width
        H == rect.height
    IN CASE b.orientation = "left-right" ->
              fillRect(setColor(fillRect(setColor(c, color), 0, 0, JsSub(pos, 1), H - 1, 0),
                                backgroundColor), pos, 0, W - 1, H - 1, 0)
         [] b.orientation = "right-left" ->
              fillRect(setColor(fillRect(setColor(c, backgroundColor), 0, 0,
                                         JsSub(JsSub(W, pos), 1), H - 1, 0),
                                color), JsSub(W, pos), 0, W - 1, H - 1, 0)
         [] b.orientation = "top-bottom" ->
              fillRect(setColor(fillRect(setColor(c, color), 0, 0, W - 1, JsSub(pos, 1), 0),
                                backgroundColor), 0, pos, W - 1, H - 1, 0)
         [] OTHER ->
              fillRect(setColor(fillRect(setColor(c, backgroundColor), 0, 0, W - 1,
                                         JsSub(JsSub(H, pos), 1), 0),
                                color), 0, JsSub(H, pos), W - 1, H - 1, 0)

\* part_000:878-905: the value text of a horizontal bar graph, drawn beside the
\* bar on the widget's background colour when it fits and on the bar, on the
\* bar's colour, when it does not.
drawBarText(c, b, rect, pos) ==
    LET reg == c.st.styles
        font == styleGetFont(reg, b.textStyle)
    IN IF font = None THEN c
       ELSE
        LET padding == Prop(reg, b.textStyle, "paddingHorizontal")
            w == measureStr(b.valueText, font[1], rect.width) + padding
            fits == JsLe(JsAdd(pos, w), rect.width)
            backgroundColor == IF fits THEN getStyleProperty(reg, b.style, "backgroundColor")
                               ELSE getStyleProperty(reg, b.style, "color")
            x == IF fits THEN pos ELSE JsSub(JsSub(pos, w), padding)
        IN IF w > 0 /\ rect.height > 0
           THEN drawNested(c, drawText(c.st, b.valueText, w, rect.height, b.textStyle, FALSE,
                                       backgroundColor), x, 0)
           ELSE c

\* part_000:829-930: the render callback of drawBarGraphWidget.  b is the widget
\* with its data already read: min and max are data.getMin/getMax || 0,
\* valueText is data.get(...) || "0" and value its parseFloat (0 for NaN).
drawBarGraphCallback(c, b, rect) ==
    LET horizontal == b.orientation \in {"left-right", "right-left"}
        d == IF horizontal THEN rect.width ELSE rect.height
        pos == calcPos(b.value, d, b.min, b.max)
        c1 == drawBar(c, b, rect, pos)
        c2 == IF horizontal THEN drawBarText(c1, b, rect, pos) ELSE c1
        c3 == drawLine(c2, b, rect, b.line1, b.line1Style)
    IN drawLine(c3, b, rect, b.line2, b.line2Style)

\* part_000:817-932
drawBarGraphWidget(st, b, rect) ==
    drawFromCache(st, "drawBarGraphWidget", None, rect.width, rect.height,
        [fn |-> "drawBarGraph", b |-> b, rect |-> rect])

-----------------------------------------------------------------------------
(* drawFromCache *)

\* part_000:79: callback(ctx).  cb names the closure the caller passed and
\* holds the variables it captured.
runCallback(c, cb) ==
    CASE cb.fn = "drawText" ->
            drawTextCallback(c, cb.text, cb.w, cb.h, cb.style, cb.inverse,
                             cb.overrideBackgroundColor)
      [] cb.fn = "drawMultilineText" ->
            drawMultilineTextCallback(c, cb.text, cb.w, cb.h, cb.style, cb.inverse)
      [] cb.fn = "drawRectangle" ->
            drawRectangleCallback(c, cb.w, cb.h, cb.style, cb.inverse)
      [] cb.fn = "drawBitmap" ->
            drawBitmapCallback(c, cb.bitmap, cb.w, cb.h, cb.style, cb.inverse)
      [] cb.fn = "drawGraph" -> drawGraphCallback(c, cb.style, cb.rect)
      [] cb.fn = "drawButtonGroup" ->
            drawButtonGroupCallback(c, cb.buttonLabels, cb.selectedButton, cb.style, cb.rect)
      [] cb.fn = "drawBarGraph" -> drawBarGraphCallback(c, cb.b, cb.rect)

\* Mutant: the result is stored whether or not the id is null.
rendered_StoreAlways(c, id, key, canvas) ==
    IF c.st.hung THEN [st |-> c.st, canvas |-> UndefinedCanvas]
    ELSE [st |-> cacheStore(c.st, key, canvas), canvas |-> canvas]

\* part_000:81-97: after the callback returned c.
rendered(c, id, key, canvas) ==
    IF c.st.hung THEN [st |-> c.st, canvas |-> UndefinedCanvas]
    ELSE IF id # None THEN [st |-> cacheStore(c.st, key, canvas), canvas |-> canvas]
    ELSE [st |-> c.st, canvas |-> canvas]

\* part_000:72-79: a new canvas, numbered uid, and the callback on it.
renderCanvas(c, id, key, uid, w, h) ==
    rendered(c, id, key, [uid |-> uid, w |-> w, h |-> h, ops |-> c.ops])

\* Mutant: a hit moves the key to the back of the queue (eviction by last
\* access instead of by insertion).
drawFromCache_RefreshOnHit(st, section, id, w, h, callback) ==
    LET key == IF id # None THEN section \o "." \o id[1] ELSE ""
        found == IF id # None THEN MapGet(st.cacheMap, key) ELSE UndefinedCanvas
    IN IF found # UndefinedCanvas
       THEN [st |-> [Logged(st, "hit", key, found.uid) EXCEPT
                        !.cache = Append(SelectSeq(st.cache, LAMBDA k : k # key), key)],
             canvas |-> found]
       ELSE renderCanvas(
                runCallback([st |-> [Logged(st, "render", key, st.nextCanvas)
                                        EXCEPT !.nextCanvas = @ + 1],
                             ops |-> <<>>], callback),
                id, key, st.nextCanvas, w, h)

\* part_000:57-98.  id is None for null.  The result is [st, canvas]; when the
\* callback never returns, neither does drawFromCache (st.hung, no canvas).
drawFromCache(st, section, id, w, h, callback) ==
    LET key == IF id # None THEN section \o "." \o id[1] ELSE ""
        found == IF id # None THEN MapGet(st.cacheMap, key) ELSE UndefinedCanvas
    IN IF found # UndefinedCanvas
       THEN [st |-> Logged(st, "hit", key, found.uid), canvas |-> found]
       ELSE renderCanvas(
                runCallback([st |-> [Logged(st, "render", key, st.nextCanvas)
                                        EXCEPT !.nextCanvas = @ + 1],
                             ops |-> <<>>], callback),
                id, key, st.nextCanvas, w, h)

-----------------------------------------------------------------------------
(* The style registries the model runs with *)

DefaultProps ==
    [borderSize |-> 0, borderRadius |-> 0, borderColor |-> "gray",
     color |-> "black", backgroundColor |-> "white", font |-> "med",
     alignHorizontal |-> "center", alignVertical |-> "center",
     paddingHorizontal |-> 1, paddingVertical |-> 0]

MkStyle(name, id, time, inheritFrom, props) ==
    [kind |-> "Style", name |-> name, _id |-> id, _modificationTime |-> time,
     inheritFrom |-> inheritFrom, props |-> props]

\* The registry of the cache runs: the default style and one bordered style
\* that inherits the rest from it.
InitStyles ==
    [default |-> MkStyle("default", "1", None, "", DefaultProps),
     s1 |-> MkStyle("s1", "2", Some(1), "",
                    [borderSize |-> 1, borderRadius |-> 2, color |-> "red"])]

-----------------------------------------------------------------------------
(* State machine *)

Range(f) == {f[x] : x \in DOMAIN f}
\* A widget rectangle.
Rect(w, h) == [width |-> w, height |-> h]

\* The width of the i-th rectangle rendered before a warmed-up initial state.
FillerWidth(i) == MAX_DRAW_CACHE_SIZE + i
WarmCount == MAX_DRAW_CACHE_SIZE - Headroom

\* The project editor after its modules were loaded: no extension registered
\* yet, the ClassInfo of Project not yet built (part_001:278-288), an enum
\* without members, no load under way.
NoLoad == [promise |-> "none", read |-> "none"]
FilePaths == {"a.eez-project", "b.eez-project", "c.eez-project"}
EditorStarted ==
    /\ extensions = <<>>
    /\ projectClassInfo = FALSE
    /\ numProjectFeatures = 0
    /\ projectProperties = <<"settings">>
    /\ classInfoRead = None
    /\ members = <<>>
    /\ messages = None
    /\ loads = [f \in FilePaths |-> NoLoad]
    /\ project = None

\* The program state a call starts from, and an empty painting context.
StartState ==
    [styles |-> styles, cache |-> cache, cacheMap |-> cacheMap, nextCanvas |-> nextCanvas,
     hung |-> FALSE, log |-> <<>>, color |-> "", backColor |-> ""]

\* The queue and the map after drawRectangle(FillerWidth(i), 1, default, false)
\* for i = 1 .. WarmCount on an empty cache; those canvases are numbered -i.
WarmKey(i) ==
    "drawRectangle." \o rectangleCacheKey(InitStyles, FillerWidth(i), 1, InitStyles["default"], FALSE)
WarmCanvas(i) ==
    [uid |-> -i, w |-> FillerWidth(i), h |-> 1,
     ops |-> drawRectangleCallback(
                [st |-> [styles |-> InitStyles, color |-> "", backColor |-> ""], ops |-> <<>>],
                FillerWidth(i), 1, InitStyles["default"], FALSE).ops]
WarmCache == [i \in 1..WarmCount |-> WarmKey(i)]
RECURSIVE WarmMapOf(_, _)
WarmMapOf(lo, hi) ==
    IF lo = hi THEN WarmKey(lo) :> WarmCanvas(lo)
    ELSE WarmMapOf(lo, (lo + hi) \div 2) @@ WarmMapOf((lo + hi) \div 2 + 1, hi)
WarmMap == WarmMapOf(1, WarmCount)

EmptyMap == [k \in {} |-> UndefinedCanvas]
\* The callers whose drawFromCache activations may be in progress together,
\* and an activation that has not begun.
Callers == {"c1", "c2"}
IdleCall ==
    [pc |-> "idle", key |-> "", w |-> 0, h |-> 0, callback |-> [fn |-> "none"],
     canvas |-> UndefinedCanvas, missed |-> FALSE, setOrder |-> 0]
NoCalls == [p \in Callers |-> IdleCall]

NoCall == [fn |-> "none", args |-> <<>>, log |-> <<>>, canvas |-> UndefinedCanvas, returned |-> TRUE]

Cold(reg) ==
    /\ styles = reg
    /\ cache = <<>>
    /\ cacheMap = EmptyMap
    /\ nextCanvas = 1
    /\ hung = FALSE
    /\ last = NoCall
    /\ inserted = <<>>
    /\ renders = [k \in {} |-> 0]
    /\ evictions = [k \in {} |-> 0]
    /\ hits = {}
    /\ calls = NoCalls
    /\ EditorStarted

Warm ==
    /\ styles = InitStyles
    /\ cache = WarmCache
    /\ cacheMap = WarmMap
    /\ nextCanvas = 1
    /\ hung = FALSE
    /\ last = NoCall
    /\ inserted = WarmCache
    /\ renders = [k \in Range(WarmCache) |-> 1]
    /\ evictions = [k \in {} |-> 0]
    /\ hits = {}
    /\ calls = NoCalls
    /\ EditorStarted

\* History bookkeeping over the log of one call.
Count(f, k) == IF k \in DOMAIN f THEN f[k] ELSE 0
Bump(f, k) == [x \in DOMAIN f \cup {k} |-> IF x = k THEN Count(f, k) + 1 ELSE f[x]]

RECURSIVE BumpAll(_, _, _)
BumpAll(f, log, ev) ==
    IF log = <<>> THEN f
    ELSE BumpAll(IF Head(log).ev = ev /\ Head(log).key # "" THEN Bump(f, Head(log).key) ELSE f,
                 Tail(log), ev)

KeysOf(log, ev) == {log[i].key : i \in {j \in DOMAIN log : log[j].ev = ev /\ log[j].key # ""}}
StoredSeq(log) == [i \in DOMAIN SelectSeq(log, LAMBDA e : e.ev = "store") |->
                     SelectSeq(log, LAMBDA e : e.ev = "store")[i].key]

\* The effect of one top-level call fn(args) that ended as r = [st, canvas].
Commit(fn, args, r) ==
    /\ ~hung
    /\ nextCanvas <= MaxCanvases
    /\ cache' = r.st.cache
    /\ cacheMap' = r.st.cacheMap
    /\ nextCanvas' = r.st.nextCanvas
    /\ hung' = r.st.hung
    /\ last' = [fn |-> fn, args |-> args, log |-> r.st.log, canvas |-> r.canvas,
                returned |-> ~r.st.hung]
    /\ inserted' = inserted \o StoredSeq(r.st.log)
    /\ renders' = BumpAll(renders, r.st.log, "render")
    /\ evictions' = BumpAll(evictions, r.st.log, "evict")
    /\ hits' = hits \cup KeysOf(r.st.log, "hit")
    /\ UNCHANGED <<styles, calls>>
    /\ UNCHANGED editorVars

DrawRectangle(w, h, style, inverse) ==
    Commit("drawRectangle", [w |-> w, h |-> h, style |-> style, inverse |-> inverse],
           drawRectangle(StartState, w, h, styles[style], inverse))

DrawText(text, w, h, style, inverse, overrideBackgroundColor) ==
    Commit("drawText",
           [text |-> text, w |-> w, h |-> h, style |-> style, inverse |-> inverse,
            overrideBackgroundColor |-> overrideBackgroundColor],
           drawText(StartState, text, w, h, styles[style], inverse, overrideBackgroundColor))

DrawMultilineText(text, w, h, style, inverse) ==
    Commit("drawMultilineText",
           [text |-> text, w |-> w, h |-> h, style |-> style, inverse |-> inverse],
           drawMultilineText(StartState, text, w, h, styles[style], inverse))

DrawButtonGroupWidget(buttonLabels, selectedButton, style, rect) ==
    Commit("drawButtonGroupWidget",
           [buttonLabels |-> buttonLabels, selectedButton |-> selectedButton,
            style |-> style, rect |-> rect],
           drawButtonGroupWidget(StartState, buttonLabels, selectedButton, styles[style], rect))

DrawBarGraphWidget(b, rect) ==
    Commit("drawBarGraphWidget", [b |-> b, rect |-> rect],
           drawBarGraphWidget(StartState,
                [b EXCEPT !.style = styles[b.style], !.textStyle = styles[b.textStyle],
                          !.line1Style = styles[b.line1Style],
                          !.line2Style = styles[b.line2Style]], rect))

DrawBitmap(bitmap, w, h, style, inverse) ==
    Commit("drawBitmap",
           [bitmap |-> bitmap.name, w |-> w, h |-> h, style |-> style, inverse |-> inverse],
           drawBitmap(StartState, bitmap, w, h, styles[style], inverse))

DrawYTGraphWidget(style, rect) ==
    Commit("drawYTGraphWidget", [style |-> style, rect |-> rect],
           drawYTGraphWidget(StartState, styles[style], rect))

DrawListGraphWidget(style, rect) ==
    Commit("drawListGraphWidget", [style |-> style, rect |-> rect],
           drawListGraphWidget(StartState, styles[style], rect))

-----------------------------------------------------------------------------
(* The cache runs: every renderer of the model on one registry, from the     *)
(* empty cache (Spec) and from a cache one render short of full (SpecWarm). *)


RectangleSizes == {<<0, 1>>, <<3, 0>>, <<3, 1>>, <<FillerWidth(1), 1>>}
TextOverrides == {None, Some("white"), Some("red")}
BarGraphs ==
    {[orientation |-> o, style |-> "s1", textStyle |-> "default", line1Style |-> "s1",
      line2Style |-> "default", min |-> 0, max |-> mx, valueText |-> "5", value |-> 5,
      line1 |-> 0, line2 |-> 7] : o \in {"left-right", "top-bottom"}, mx \in {5, 10}}

Init == Cold(InitStyles)

Next ==
    \/ \E s \in RectangleSizes : DrawRectangle(s[1], s[2], "default", FALSE)
    \/ \E o \in TextOverrides : DrawText("5", 3, 8, "default", FALSE, o)
    \/ DrawMultilineText("a b", 5, 9, "s1", FALSE)
    \/ \E sel \in {0, 1} : DrawButtonGroupWidget(<<"a", "b">>, sel, "s1", Rect(9, 8))
    \/ \E b \in BarGraphs : DrawBarGraphWidget(b, Rect(12, 8))
    \/ DrawYTGraphWidget("s1", Rect(4, 4))
    \/ DrawListGraphWidget("default", Rect(4, 4))

Spec == Init /\ [][Next]_vars

InitWarm == Warm

NextWarm ==
    \/ \E s \in {<<3, 1>>, <<FillerWidth(1), 1>>} : DrawRectangle(s[1], s[2], "default", FALSE)
    \/ DrawText("5", 3, 8, "default", FALSE, None)
    \/ DrawButtonGroupWidget(<<"a", "b">>, 0, "s1", Rect(9, 8))
    \/ DrawYTGraphWidget("s1", Rect(4, 4))

SpecWarm == InitWarm /\ [][NextWarm]_vars

-----------------------------------------------------------------------------
(* Style edits: a registry of three styles whose inheritFrom links vary, and
   the editor stamping a style with a new modification time. *)

StyleRegistry(p1, p2, pd) ==
    [default |-> MkStyle("default", "1", None, pd, DefaultProps),
     s1 |-> MkStyle("s1", "2", None, p1, [borderSize |-> 1, font |-> "tiny"]),
     s2 |-> MkStyle("s2", "3", None, p2, [color |-> "red"])]

\* The newest modification time of the registry (0 when no style has one).
LatestTime(reg) ==
    Max(0, CHOOSE t \in {OrZero(reg[n]._modificationTime) : n \in DOMAIN reg} :
               \A n \in DOMAIN reg : OrZero(reg[n]._modificationTime) <= t)

\* The project editor modifies the style `name`: the style gets a newer
\* _modificationTime; the cache is not told.
EditStyle(name) ==
    /\ ~hung
    /\ LatestTime(styles) < MaxClock
    /\ styles' = [styles EXCEPT ![name]._modificationTime = Some(LatestTime(styles) + 1)]
    /\ last' = [fn |-> "editStyle", args |-> [style |-> name], log |-> <<>>,
                canvas |-> UndefinedCanvas, returned |-> TRUE]
    /\ UNCHANGED <<cache, cacheMap, nextCanvas, hung, inserted, renders, evictions, hits, calls>>
    /\ UNCHANGED editorVars

\* part_000:102-132 on a style whose chain of parents comes back to a style
\* already being resolved: the recursion has no end, the call stack overflows
\* and the RangeError leaves the renderer before it touched the cache.
StackOverflow(fn, args) ==
    /\ ~hung
    /\ last' = [fn |-> fn, args |-> args, log |-> <<>>, canvas |-> UndefinedCanvas,
                returned |-> FALSE]
    /\ UNCHANGED <<styles, cache, cacheMap, nextCanvas, hung, inserted, renders, evictions, hits, calls>>
    /\ UNCHANGED editorVars

StyleNames == {"default", "s1", "s2"}
\* The styles the widgets of the page are drawn with.
DrawnStyles == {"default", "s1"}
\* inheritFrom of s1, s2 and default: no parent, a parent, a parent that is
\* no style of the project, two styles inheriting from each other, a default
\* style that inherits, and a default style whose parent is no style.
StyleLinks ==
    {<<"", "", "">>, <<"s2", "", "">>, <<"missing", "", "">>, <<"s2", "s1", "">>,
     <<"", "", "s2">>, <<"", "", "missing">>}

InitStyle == \E l \in StyleLinks : Cold(StyleRegistry(l[1], l[2], l[3]))

NextStyle ==
    \/ \E name \in StyleNames : EditStyle(name)
    \/ \E name \in DrawnStyles :
          /\ CacheIdReturns(styles, styles[name])
          /\ DrawRectangle(3, 1, name, FALSE)
    \/ \E name \in DrawnStyles :
          /\ ~CacheIdReturns(styles, styles[name])
          /\ StackOverflow("drawRectangle", [w |-> 3, h |-> 1, style |-> name, inverse |-> FALSE])

SpecStyle == InitStyle /\ [][NextStyle]_vars

-----------------------------------------------------------------------------
(* Text rendering: escaped, plain and malformed texts, in a style with the
   8-pixel font and in a style with the 1-pixel font, in a wide and in a
   narrow box. *)

TextStyles ==
    [default |-> MkStyle("default", "1", None, "", DefaultProps),
     t1 |-> MkStyle("t1", "4", None, "", [font |-> "tiny"])]

\* a word; two words; an escaped line feed; a raw quote; a trailing backslash
Texts == {"ab", "a b", "a\\nb", "\"ab", "a\\"}
\* [w, h] of the boxes: w = 3 leaves an inset one pixel wide inside the padding
TextBoxes == {Rect(3, 9), Rect(9, 9)}

InitText == Cold(TextStyles)

NextText ==
    \/ \E text \in Texts : DrawText(text, 9, 9, "default", FALSE, None)
    \/ \E text \in Texts, box \in TextBoxes, style \in {"default", "t1"} :
          DrawMultilineText(text, box.width, box.height, style, FALSE)

SpecText == InitText /\ [][NextText]_vars

-----------------------------------------------------------------------------
(* Geometry and colours: one widget style "w" whose border, radius,
   alignment and padding vary, over a default style that sets neither border
   nor alignment; every primitive renderer in a wide and in a narrow box. *)

BareDefaultProps ==
    [borderColor |-> "gray", color |-> "black", backgroundColor |-> "white",
     font |-> "med", paddingHorizontal |-> 1, paddingVertical |-> 0]

StyleVariants ==
    { [font |-> "med"],
      [borderSize |-> 0, borderRadius |-> 2, alignHorizontal |-> "center",
       alignVertical |-> "center", paddingHorizontal |-> 0],
      [borderSize |-> 1, borderRadius |-> 0],
      [borderSize |-> 1, borderRadius |-> 3, alignHorizontal |-> "left",
       alignVertical |-> "top", paddingVertical |-> 1],
      [borderSize |-> 2, borderRadius |-> 1, alignHorizontal |-> "right",
       alignVertical |-> "bottom", color |-> "red", backgroundColor |-> "yellow"] }

DrawRegistry(v) ==
    [default |-> MkStyle("default", "1", None, "", BareDefaultProps),
     w |-> MkStyle("w", "5", None, "", v)]

\* A bitmap with its image loaded, and one whose image is missing.
Logo ==
    [kind |-> "Bitmap", name |-> "logo", _id |-> "9", _modificationTime |-> None,
     imageElement |-> Some([name |-> "logo.png", width |-> 4, height |-> 2]),
     backgroundColor |-> "green"]
Blank ==
    [kind |-> "Bitmap", name |-> "blank", _id |-> "10", _modificationTime |-> None,
     imageElement |-> None, backgroundColor |-> ""]

WideBox == Rect(12, 12)
NarrowBox == Rect(5, 6)
\* The rectangle of the 10 x 6 example.
ExampleBox == Rect(10, 6)
\* A box two lines of the 8-pixel font high.
TallBox == Rect(7, 16)

InitDraw == \E v \in StyleVariants : Cold(DrawRegistry(v))

\* Whether the run may allocate another canvas.
Room == nextCanvas <= DrawDepth

NextDraw ==
    \/ /\ Room
       /\ \E box \in {WideBox, NarrowBox}, inverse \in BOOLEAN, o \in {None, Some("blue")} :
             DrawText("ab", box.width, box.height, "w", inverse, o)
    \/ /\ Room
       /\ \E box \in {WideBox, TallBox}, inverse \in BOOLEAN :
             DrawMultilineText("ab ab", box.width, box.height, "w", inverse)
    \/ /\ Room
       /\ \E inverse \in BOOLEAN :
             DrawRectangle(ExampleBox.width, ExampleBox.height, "w", inverse)
    \/ /\ Room
       /\ \E bitmap \in {Logo, Blank} :
             DrawBitmap(bitmap, WideBox.width, WideBox.height, "w", FALSE)
    \/ Room /\ DrawYTGraphWidget("w", NarrowBox)
    \/ Room /\ DrawListGraphWidget("w", WideBox)

SpecDraw == InitDraw /\ [][NextDraw]_vars

\* Multiline texts of one and of two paragraphs, the second one with a word
\* wider than the tall box, in a box of one line and in a box of two.
NextWrap ==
    /\ Room
    /\ \E text \in {"ab ab", "ab\\nab", "ab\\nab abab a"}, box \in {WideBox, TallBox} :
          DrawMultilineText(text, box.width, box.height, "w", FALSE)

SpecWrap == InitDraw /\ [][NextWrap]_vars

\* Bar graph widgets with their data read: no data binding (min = max = 0,
\* value 0), ranges that start at 0 and above 0, values below, inside and
\* above the range, in the four orientations.
BarInputs ==
    {[orientation |-> o, style |-> "s1", textStyle |-> "default", line1Style |-> "s1",
      line2Style |-> "default", min |-> r[1], max |-> r[2], valueText |-> NumStr(v),
      value |-> v, line1 |-> l, line2 |-> 7] :
        o \in {"left-right", "right-left", "top-bottom", "bottom-top"},
        r \in {<<0, 0>>, <<0, 10>>, <<2, 10>>},
        v \in {0, 2, 5, 10, 15},
        l \in {0, 5, 10}}

NextBar == Room /\ \E b \in BarInputs : DrawBarGraphWidget(b, Rect(12, 8))

SpecBar == Init /\ [][NextBar]_vars

\* Button groups of one, two and three labels ("a" twice), with the first,
\* the second or no button selected, in rectangles wider than tall, taller
\* than wide (wider and narrower than a button is tall) and square.
NextButtons ==
    \E buttonLabels \in {<<"a">>, <<"a", "b">>, <<"a", "b", "a">>}, selectedButton \in {0, 1, 3},
       rect \in {Rect(11, 8), Rect(8, 11), Rect(2, 11), Rect(8, 8)} :
          DrawButtonGroupWidget(buttonLabels, selectedButton, "s1", rect)

SpecButtons == Init /\ [][NextButtons]_vars

-----------------------------------------------------------------------------
(* Two activations of drawFromCache in progress together, statement by
   statement: drawRectangle(w, 1, default, false) entered by each caller. *)

\* part_000:427-432: drawRectangle hands the key and the callback over.
RaceEnter(p, w) ==
    /\ calls[p].pc = "idle"
    /\ calls' = [calls EXCEPT ![p] =
                   [IdleCall EXCEPT
                      !.pc = "lookup",
                      !.key = "drawRectangle." \o
                              rectangleCacheKey(styles, w, 1, styles[DefaultStyleName], FALSE),
                      !.w = w, !.h = 1,
                      !.callback = [fn |-> "drawRectangle", w |-> w, h |-> 1,
                                    style |-> styles[DefaultStyleName], inverse |-> FALSE]]]
    /\ UNCHANGED <<styles, cache, cacheMap, nextCanvas, hung, last, inserted, renders,
                   evictions, hits>>
    /\ UNCHANGED editorVars

\* part_000:66-71
RaceLookup(p) ==
    /\ calls[p].pc = "lookup"
    /\ calls' = [calls EXCEPT
                   ![p].canvas = MapGet(cacheMap, calls[p].key),
                   ![p].missed = (MapGet(cacheMap, calls[p].key) = UndefinedCanvas),
                   ![p].pc = IF MapGet(cacheMap, calls[p].key) = UndefinedCanvas
                             THEN "create" ELSE "return"]
    /\ hits' = IF calls[p].key \in DOMAIN cacheMap THEN hits \cup {calls[p].key} ELSE hits
    /\ UNCHANGED <<styles, cache, cacheMap, nextCanvas, hung, last, inserted, renders, evictions>>
    /\ UNCHANGED editorVars

\* part_000:72-79
RaceRender(p) ==
    /\ calls[p].pc = "create"
    /\ nextCanvas <= MaxCanvases
    /\ calls' = [calls EXCEPT
                   ![p].canvas = [uid |-> nextCanvas, w |-> calls[p].w, h |-> calls[p].h,
                                  ops |-> runCallback([st |-> StartState, ops |-> <<>>],
                                                      calls[p].callback).ops],
                   ![p].pc = "trim"]
    /\ nextCanvas' = nextCanvas + 1
    /\ renders' = Bump(renders, calls[p].key)
    /\ UNCHANGED <<styles, cache, cacheMap, hung, last, inserted, evictions, hits>>
    /\ UNCHANGED editorVars

\* part_000:81-87
RaceTrim(p) ==
    /\ calls[p].pc = "trim"
    /\ calls' = [calls EXCEPT ![p].pc = "push"]
    /\ IF Len(cache) = MAX_DRAW_CACHE_SIZE
       THEN /\ cache' = Tail(cache)
            /\ cacheMap' = MapDelete(cacheMap, Head(cache))
            /\ evictions' = Bump(evictions, Head(cache))
       ELSE UNCHANGED <<cache, cacheMap, evictions>>
    /\ UNCHANGED <<styles, nextCanvas, hung, last, inserted, renders, hits>>
    /\ UNCHANGED editorVars

\* part_000:89
RacePush(p) ==
    /\ calls[p].pc = "push"
    /\ calls' = [calls EXCEPT ![p].pc = "set"]
    /\ cache' = Append(cache, calls[p].key)
    /\ inserted' = Append(inserted, calls[p].key)
    /\ UNCHANGED <<styles, cacheMap, nextCanvas, hung, last, renders, evictions, hits>>
    /\ UNCHANGED editorVars

\* part_000:90
RaceSet(p) ==
    /\ calls[p].pc = "set"
    /\ calls' = [calls EXCEPT
                   ![p].pc = "return",
                   ![p].setOrder = 1 + Cardinality({q \in Callers : calls[q].setOrder > 0})]
    /\ cacheMap' = MapSet(cacheMap, calls[p].key, calls[p].canvas)
    /\ UNCHANGED <<styles, cache, nextCanvas, hung, last, inserted, renders, evictions, hits>>
    /\ UNCHANGED editorVars

\* part_000:97
RaceReturn(p) ==
    /\ calls[p].pc = "return"
    /\ calls' = [calls EXCEPT ![p].pc = "done"]
    /\ last' = [fn |-> "drawFromCache", args |-> [caller |-> p, key |-> calls[p].key],
                log |-> <<>>, canvas |-> calls[p].canvas, returned |-> TRUE]
    /\ UNCHANGED <<styles, cache, cacheMap, nextCanvas, hung, inserted, renders, evictions, hits>>
    /\ UNCHANGED editorVars

InitRace == Cold(InitStyles)

NextRace ==
    \E p \in Callers :
        \/ \E w \in {3, 4} : RaceEnter(p, w)
        \/ RaceLookup(p)
        \/ RaceRender(p)
        \/ RaceTrim(p)
        \/ RacePush(p)
        \/ RaceSet(p)
        \/ RaceReturn(p)

SpecRace == InitRace /\ [][NextRace]_vars

-----------------------------------------------------------------------------
(* The class info of Project (src/unnamed/part_001:278-365) *)

\* The keys of the project features an extension may bring.
FeatureKeys == {"action", "data", "gui", "scpi"}

\* An extension of category "project-feature" is registered: from then on
\* getExtensionsByCategory("project-feature") returns it too.
RegisterExtension(key) ==
    /\ Len(extensions) < MaxFeatures
    /\ key \notin Range(extensions)
    /\ extensions' = Append(extensions, key)
    /\ UNCHANGED <<projectClassInfo, numProjectFeatures, projectProperties, classInfoRead,
                   members, messages, loads, project>>
    /\ UNCHANGED drawingVars

\* part_001:301-325: a PropertyInfo is modelled by its name.  properties is the
\* array before the call; builtinProjectProperties names that same array
\* (part_001:288), so builtinProjectProperties.concat(...) starts with all of
\* its elements, and splice replaces its content by the result.
getProjectClassInfo(num, properties, projectFeatures) ==
    IF num # Len(projectFeatures)
    THEN [numProjectFeatures |-> Len(projectFeatures),
          projectProperties |-> properties \o projectFeatures]
    ELSE [numProjectFeatures |-> num, projectProperties |-> properties]

\* part_001:363-365: a read of Project.classInfo.  The ClassInfo returned
\* holds the array itself (part_001:294), so its properties are the array's
\* content after the call.
ReadClassInfo ==
    /\ projectClassInfo' = TRUE
    /\ numProjectFeatures' =
          getProjectClassInfo(numProjectFeatures, projectProperties, extensions).numProjectFeatures
    /\ projectProperties' =
          getProjectClassInfo(numProjectFeatures, projectProperties, extensions).projectProperties
    /\ classInfoRead' = Some([properties |-> projectProperties', features |-> extensions])
    /\ UNCHANGED <<extensions, members, messages, loads, project>>
    /\ UNCHANGED drawingVars

InitFeatures == Cold(InitStyles)

NextFeatures ==
    \/ \E key \in FeatureKeys : RegisterExtension(key)
    \/ ReadClassInfo

SpecFeatures == InitFeatures /\ [][NextFeatures]_vars

-----------------------------------------------------------------------------
(* ScpiEnumMember.check (features/scpi/enum.ts:52-80) *)

MemberNames == {"", "ON", "OFF"}

\* A member with that name is added to the enum's members.
AddMember(name) ==
    /\ Len(members) < MaxMembers
    /\ members' = Append(members, name)
    /\ UNCHANGED <<extensions, projectClassInfo, numProjectFeatures, projectProperties,
                   classInfoRead, messages, loads, project>>
    /\ UNCHANGED drawingVars

\* enum.ts:57-65: the loop over the parent array from index i on; arr holds
\* the members' names and this is the index of the member checked (arr[i] ===
\* this exactly at that index).  It returns otherIndex.
RECURSIVE checkLoop(_, _, _, _)
checkLoop(arr, this, i, otherIndex) ==
    IF ~(i < Len(arr)) THEN otherIndex
    ELSE IF i = this THEN checkLoop(arr, this, i + 1, otherIndex)
    ELSE IF arr[i + 1] = arr[this + 1] THEN checkLoop(arr, this, i + 1, i)
    ELSE checkLoop(arr, this, i + 1, otherIndex)

\* enum.ts:52-80: the messages of the member at index this of arr.
check(arr, this) ==
    IF arr[this + 1] # ""
    THEN IF checkLoop(arr, this, 0, -1) # -1 /\ this > checkLoop(arr, this, 0, -1)
         THEN <<"Member name '" \o arr[this + 1] \o "' is not unique">>
         ELSE <<>>
    ELSE <<"name not set">>

\* The check of the member at index this.
CheckMember(this) ==
    /\ this \in 0..(Len(members) - 1)
    /\ messages' = Some([this |-> this, messages |-> check(members, this)])
    /\ UNCHANGED <<extensions, projectClassInfo, numProjectFeatures, projectProperties,
                   classInfoRead, members, loads, project>>
    /\ UNCHANGED drawingVars

InitEnum == Cold(InitStyles)

NextEnum ==
    \/ \E name \in MemberNames : AddMember(name)
    \/ \E this \in 0..(MaxMembers - 1) : CheckMember(this)

SpecEnum == InitEnum /\ [][NextEnum]_vars

-----------------------------------------------------------------------------
(* load (src/unnamed/part_001:390-409) *)

\* What fs.readFile may pass to its callback: an error, or the content of the
\* file, of which load uses whether JSON.parse returns (json) and whether
\* loadObject returns (object).
ReadResults ==
    {[err |-> TRUE, json |-> FALSE, object |-> FALSE],
     [err |-> FALSE, json |-> FALSE, object |-> FALSE],
     [err |-> FALSE, json |-> TRUE, object |-> FALSE],
     [err |-> FALSE, json |-> TRUE, object |-> TRUE]}

\* part_001:390-393: load(filePath) returns a new promise and starts the read.
Load(filePath) ==
    /\ loads[filePath].promise = "none"
    /\ loads' = [loads EXCEPT ![filePath] = [promise |-> "pending", read |-> "pending"]]
    /\ UNCHANGED <<extensions, projectClassInfo, numProjectFeatures, projectProperties,
                   classInfoRead, members, messages, project>>
    /\ UNCHANGED drawingVars

\* part_001:393-406: the callback of fs.readFile.  An exception of JSON.parse
\* or of loadObject leaves the callback before resolve is reached; nothing
\* catches it there, so neither resolve nor reject is ever called.
ReadFileCallback(filePath, r) ==
    /\ loads[filePath].read = "pending"
    /\ IF r.err
       THEN /\ loads' = [loads EXCEPT ![filePath] = [promise |-> "rejected", read |-> "done"]]
            /\ UNCHANGED project
       ELSE IF ~r.json \/ ~r.object
       THEN /\ loads' = [loads EXCEPT ![filePath] = [promise |-> "pending", read |-> "threw"]]
            /\ UNCHANGED project
       ELSE /\ loads' = [loads EXCEPT ![filePath] = [promise |-> "resolved", read |-> "done"]]
            /\ project' = Some(filePath)
    /\ UNCHANGED <<extensions, projectClassInfo, numProjectFeatures, projectProperties,
                   classInfoRead, members, messages>>
    /\ UNCHANGED drawingVars

InitLoad == Cold(InitStyles)

NextLoad ==
    \E filePath \in FilePaths :
        \/ Load(filePath)
        \/ \E r \in ReadResults : ReadFileCallback(filePath, r)

\* fs.readFile calls its callback for every read it was asked for.
SpecLoad ==
    /\ InitLoad
    /\ [][NextLoad]_vars
    /\ \A filePath \in FilePaths : WF_vars(\E r \in ReadResults : ReadFileCallback(filePath, r))

-----------------------------------------------------------------------------
(* Properties of the draw cache *)

\* The top-level drawFromCache call of a logged call: its first log entry.
TopEvent(call) == call.log[1]
IsNullIdCall(call) ==
    call.log # <<>> /\ TopEvent(call).ev = "render" /\ TopEvent(call).key = ""
\* The keys rendered by the calls nested in the top-level callback.
NestedRenderKeys(call) ==
    {call.log[i].key : i \in {j \in 2..Len(call.log) : call.log[j].ev = "render"}}
Uids(map) == {map[k].uid : k \in DOMAIN map}

\* C1: the draw cache never holds more than MAX_DRAW_CACHE_SIZE entries: the
\* insertion queue and the map both have at most 1000 entries in every state,
\* whatever mix of sections, null and non-null ids, hits, misses and nested
\* renders led to it.
C1_CacheBound ==
    /\ Len(cache) <= MAX_DRAW_CACHE_SIZE
    /\ Cardinality(DOMAIN cacheMap) <= MAX_DRAW_CACHE_SIZE

\* A button group rendered into a full cache: its nested drawText renders and
\* its own store each evicted an entry.
C1_Witness ==
    /\ last.fn = "drawButtonGroupWidget"
    /\ Len(StoredSeq(last.log)) = 3
    /\ KeysOf(last.log, "evict") # {}
    /\ Len(cache) = MAX_DRAW_CACHE_SIZE

\* C2: eviction is first-in first-out by insertion and independent of access:
\* the queue is the tail of the insertion history, once more than 1000 keys
\* were inserted it holds exactly the 1000 most recently inserted ones, and the
\* map holds exactly the keys of the queue, whichever keys were hit meanwhile.
C2_FifoByInsertion ==
    /\ Len(inserted) > MAX_DRAW_CACHE_SIZE => Len(cache) = MAX_DRAW_CACHE_SIZE
    /\ Len(cache) <= Len(inserted)
    /\ cache = SubSeq(inserted, Len(inserted) - Len(cache) + 1, Len(inserted))
    /\ DOMAIN cacheMap = Range(cache)

\* The oldest key was hit after its insertion and is gone all the same after
\* the first insertion past the capacity.
C2_Witness ==
    /\ Len(inserted) = MAX_DRAW_CACHE_SIZE + 1
    /\ WarmKey(1) \in hits
    /\ WarmKey(1) \notin DOMAIN cacheMap
    /\ Len(cache) = MAX_DRAW_CACHE_SIZE

\* C3: a drawFromCache call with a null id renders on a new canvas and does not
\* store it: the canvas is none of the stored ones nor the previous call's, it
\* is in the map under no key afterwards, and the queue and the map change only
\* by what the renders nested in the callback stored.
C3_Step ==
    IsNullIdCall(last') =>
        /\ TopEvent(last').uid = nextCanvas
        /\ last'.canvas.uid = nextCanvas
        /\ nextCanvas \notin Uids(cacheMap)
        /\ last.canvas.uid # last'.canvas.uid
        /\ last'.canvas.uid \notin Uids(cacheMap')
        /\ "" \notin DOMAIN cacheMap'
        /\ Range(cache') \ Range(cache) \subseteq NestedRenderKeys(last')
        /\ \A k \in DOMAIN cacheMap \cap DOMAIN cacheMap' : cacheMap'[k] = cacheMap[k]
        /\ NestedRenderKeys(last') = {} => cache' = cache /\ cacheMap' = cacheMap

C3_NullKeyBypass == [][C3_Step]_vars

\* Two null-id renders in a row (nothing was stored), and a null-id render with
\* a nested render that was stored.
C3_Witness ==
    \/ /\ last.fn = "drawYTGraphWidget"
       /\ last.canvas.uid = 2
       /\ cache = <<>>
    \/ /\ last.fn = "drawBarGraphWidget"
       /\ NestedRenderKeys(last) # {}

\* C4: a drawFromCache call whose composite key is stored returns the stored
\* canvas, invokes no callback, and leaves the queue and the map as they were.
C4_Step ==
    (last'.log # <<>> /\ TopEvent(last').key \in DOMAIN cacheMap) =>
        /\ Len(last'.log) = 1
        /\ TopEvent(last').ev = "hit"
        /\ last'.canvas = cacheMap[TopEvent(last').key]
        /\ cache' = cache
        /\ cacheMap' = cacheMap
        /\ nextCanvas' = nextCanvas
        /\ renders' = renders

C4_HitLeavesCache == [][C4_Step]_vars

\* A hit on a key that is not the newest of the queue.
C4_Witness ==
    /\ last.log # <<>>
    /\ TopEvent(last).ev = "hit"
    /\ Len(cache) >= 2
    /\ TopEvent(last).key # cache[Len(cache)]

\* C5 as stated: the render callback is invoked at most once for a given
\* non-null composite key.
C5_AtMostOnce == \A k \in DOMAIN renders : renders[k] <= 1

\* C5 as amended: the callback is invoked at most once for a key for as long as
\* the key stays stored; it is invoked again only after the key was evicted.
C5_OncePerResidency ==
    \A k \in DOMAIN renders : renders[k] <= 1 + Count(evictions, k)

\* A key rendered, evicted and rendered again.
C5_Witness ==
    \E k \in DOMAIN renders : renders[k] = 2 /\ Count(evictions, k) = 1 /\ k \in DOMAIN cacheMap

\* The colour of the fill of the inset rectangle: the last fillRect of a canvas.
BackgroundFill(canvas) ==
    LET fills == SelectSeq(canvas.ops, LAMBDA o : o.op = "fillRect")
    IN fills[Len(fills)].color

\* C6: drawText honours the background override: a call with inverse = false
\* and overrideBackgroundColor = B returns a canvas whose background was
\* painted with B, also when the same text, size and style were drawn before
\* with another override.
C6_OverrideHonoured ==
    (/\ last.fn = "drawText"
     /\ last.args.overrideBackgroundColor # None
     /\ ~last.args.inverse)
    => BackgroundFill(last.canvas) = last.args.overrideBackgroundColor[1]

\* C8: drawRectangle returns undefined when w <= 0 or h <= 0, without calling
\* drawFromCache, rendering, or touching the queue and the map; for w > 0 and
\* h > 0 it returns a canvas.
C8_Step ==
    last'.fn = "drawRectangle" =>
        IF last'.args.w <= 0 \/ last'.args.h <= 0
        THEN /\ last'.canvas = UndefinedCanvas
             /\ last'.log = <<>>
             /\ cache' = cache
             /\ cacheMap' = cacheMap
             /\ nextCanvas' = nextCanvas
        ELSE /\ last'.canvas # UndefinedCanvas
             /\ last'.canvas.w = last'.args.w
             /\ last'.canvas.h = last'.args.h

C8_RectangleNoOp == [][C8_Step]_vars

\* A zero-width rectangle asked for while the cache holds entries.
C8_Witness ==
    /\ last.fn = "drawRectangle"
    /\ last.args.w <= 0
    /\ last.canvas = UndefinedCanvas
    /\ cache # <<>>

\* The resolution chain of the style `name`: the style, each style reached
\* through inheritFrom, and the default style (with its own parents) where a
\* style other than the default has no resolvable parent.
RECURSIVE ChainFrom(_, _, _)
ChainFrom(reg, name, seen) ==
    IF name \in seen THEN seen
    ELSE LET parent == IF reg[name].inheritFrom \in DOMAIN reg THEN reg[name].inheritFrom
                       ELSE IF name # DefaultStyleName THEN DefaultStyleName
                       ELSE ""
         IN IF parent = "" THEN seen \cup {name}
            ELSE ChainFrom(reg, parent, seen \cup {name})
Chain(reg, name) == ChainFrom(reg, name, {})

\* The composite key of drawRectangle(3, 1, name, false) under the registry reg.
StyleKey(reg, name) == "drawRectangle." \o rectangleCacheKey(reg, 3, 1, reg[name], FALSE)

\* C7: a change of the _modificationTime of a style A changes getCacheId(S) of
\* every style S that has A on its resolution chain (and for which getCacheId
\* returns), so the key of a render on S is not the key it had before the
\* edit; the render that follows the edit misses.
C7_Step ==
    /\ \A A \in DOMAIN styles :
         (/\ styles'[A]._modificationTime # styles[A]._modificationTime
          /\ styles' = [styles EXCEPT ![A]._modificationTime = styles'[A]._modificationTime])
         => \A S \in DOMAIN styles :
              (A \in Chain(styles, S) /\ CacheIdReturns(styles, styles[S]))
              => /\ CacheIdReturns(styles', styles'[S])
                 /\ getCacheId(styles', styles'[S]) # getCacheId(styles, styles[S])
                 /\ StyleKey(styles', S) # StyleKey(styles, S)
                 /\ StyleKey(styles', S) \notin DOMAIN cacheMap
    /\ (/\ last.fn = "editStyle"
        /\ last'.fn = "drawRectangle"
        /\ last'.log # <<>>
        /\ last.args.style \in Chain(styles, last'.args.style))
       => /\ TopEvent(last').ev = "render"
          /\ last'.canvas.uid \notin Uids(cacheMap)

C7_EditChangesCacheId == [][C7_Step]_vars

\* s1 was rendered and stored, then the default style it falls back to was
\* edited, and the next render on s1 was stored under another key.
C7_Witness ==
    /\ last.fn = "drawRectangle"
    /\ last.args.style = "s1"
    /\ styles["s1"].inheritFrom = ""
    /\ styles["s1"]._modificationTime = None
    /\ styles["default"]._modificationTime # None
    /\ Len(inserted) = 2
    /\ inserted[2] = StyleKey(styles, "s1")
    /\ inserted[1] = StyleKey([styles EXCEPT !["default"]._modificationTime = None], "s1")
    /\ inserted[1] # inserted[2]

\* The texts handed to lcd.drawStr on a canvas.
DrawnTexts(canvas) ==
    {canvas.ops[i].text : i \in {j \in DOMAIN canvas.ops : canvas.ops[j].op = "drawStr"}}
\* Whether word is a piece of text.
IsPieceOf(word, text) ==
    \E j \in 0..Len(text), n \in 0..Len(text) : Substr(text, j, n) = word
\* The composite key of the logged call of drawText or drawMultilineText.
TextKey(call) ==
    call.fn \o "." \o textCacheKey(styles, call.args.text, call.args.w, call.args.h,
                                   styles[call.args.style], call.args.inverse)

\* C9: a text that is no valid JSON string content is absorbed by drawText and
\* drawMultilineText: the render completes, the raw text is what is measured
\* and drawn, a canvas is returned, and it is stored under the key built from
\* the raw text.
C9_MalformedAbsorbed ==
    (/\ last.fn \in {"drawText", "drawMultilineText"}
     /\ ~JsonParseString(last.args.text).ok)
    => /\ last.returned
       /\ last.canvas # UndefinedCanvas
       /\ \A word \in DrawnTexts(last.canvas) : IsPieceOf(word, last.args.text)
       /\ TextKey(last) \in DOMAIN cacheMap
       /\ cacheMap[TextKey(last)] = last.canvas

\* C10: the render callback of drawMultilineText terminates for every input,
\* a line height of 0 and a word wider than the inset rectangle included.
C10_MultilineTerminates ==
    last.fn = "drawMultilineText" => last.returned /\ ~hung

\* The styles reached from `name` by following inheritFrom through findStyle
\* (the fallback to the default style is not followed).
RECURSIVE InheritReach(_, _, _)
InheritReach(reg, name, seen) ==
    LET parent == reg[name].inheritFrom
    IN IF parent \notin DOMAIN reg \/ parent \in seen THEN seen
       ELSE InheritReach(reg, parent, seen \cup {parent})
\* No style reaches itself by following inheritFrom.
Acyclic(reg) == \A name \in DOMAIN reg : name \notin InheritReach(reg, name, {})

\* C11: whenever the inheritFrom chains of the registry are acyclic,
\* getCacheId returns for every style, whatever the default style inherits
\* from, and a renderer that keys on the style returns.
C11_AcyclicTerminates ==
    Acyclic(styles) =>
        /\ \A name \in DOMAIN styles : CacheIdReturns(styles, styles[name])
        /\ last.fn = "drawRectangle" => last.returned

\* The font part of a style's id, as part_000:116-119 appends it.
FontCacheId(reg, style) ==
    IF styleGetFont(reg, style) # None THEN getCacheId(reg, styleGetFont(reg, style)[1]) ELSE ""

\* C12: a style whose inheritFrom names no style of the registry gets the id
\* it would get without inheritFrom: nothing is appended for the parent (the
\* id is the base id, the font's id and, for a style other than the default,
\* the default style's id), and getCacheId returns.
C12_MissingParentIgnored ==
    \A name \in DOMAIN styles :
        (styles[name].inheritFrom # "" /\ findStyle(styles, styles[name].inheritFrom) = None)
        => /\ CacheIdFrom(styles, styles[name], {})
                = CacheIdFrom([styles EXCEPT ![name].inheritFrom = ""],
                              [styles[name] EXCEPT !.inheritFrom = ""], {})
           /\ CacheIdReturns(styles, styles[DefaultStyleName])
              => /\ CacheIdReturns(styles, styles[name])
                 /\ getCacheId(styles, styles[name])
                      = BaseCacheId(styles[name]) \o FontCacheId(styles, styles[name])
                        \o (IF name # DefaultStyleName
                            THEN "," \o getCacheId(styles, styles[DefaultStyleName])
                            ELSE "")

\* A rectangle was rendered and stored in a style whose inheritFrom names no
\* style, after an edit of the default style it falls back to.
C12_Witness ==
    /\ last.fn = "drawRectangle"
    /\ last.returned
    /\ last.canvas # UndefinedCanvas
    /\ styles[last.args.style].inheritFrom = "missing"
    /\ styles[DefaultStyleName]._modificationTime # None
    /\ StyleKey(styles, last.args.style) \in DOMAIN cacheMap

\* The keys a logged call evicted, in the order it evicted them.
EvictedSeq(log) == [i \in DOMAIN SelectSeq(log, LAMBDA e : e.ev = "evict") |->
                      SelectSeq(log, LAMBDA e : e.ev = "evict")[i].key]

\* C13: a stored entry is never overwritten: a key of the map keeps its canvas
\* until it is evicted; a key is stored only while it is not in the map, with
\* a new canvas; each insertion evicts at most one key, the oldest of the
\* queue, and only when the queue holds MAX_DRAW_CACHE_SIZE keys, and every
\* other entry stays as it was.
C13_Step ==
    /\ \A k \in DOMAIN cacheMap \ Range(EvictedSeq(last'.log)) :
         k \in DOMAIN cacheMap' /\ cacheMap'[k] = cacheMap[k]
    /\ \A k \in Range(StoredSeq(last'.log)) :
         /\ k \notin DOMAIN cacheMap \/ k \in Range(EvictedSeq(last'.log))
         /\ k \in DOMAIN cacheMap' => cacheMap'[k].uid >= nextCanvas
    /\ \A i \in DOMAIN last'.log :
         last'.log[i].ev = "evict" => i < Len(last'.log) /\ last'.log[i + 1].ev = "store"
    /\ Len(EvictedSeq(last'.log))
         = Max(0, Len(cache) + Len(StoredSeq(last'.log)) - MAX_DRAW_CACHE_SIZE)
    /\ EvictedSeq(last'.log)
         = SubSeq(cache \o StoredSeq(last'.log), 1, Len(EvictedSeq(last'.log)))

C13_EntriesImmutable == [][C13_Step]_vars

\* The last call evicted the oldest entry while the second oldest still maps
\* to the canvas it was stored with.
C13_Witness ==
    /\ KeysOf(last.log, "evict") # {}
    /\ Len(cache) = MAX_DRAW_CACHE_SIZE
    /\ WarmKey(2) \in DOMAIN cacheMap
    /\ cacheMap[WarmKey(2)] = WarmCanvas(2)
    /\ WarmKey(1) \notin DOMAIN cacheMap

\* The two callers went through drawFromCache with the same key and both
\* missed at the lookup.
BothMissed(p, q) ==
    /\ p # q
    /\ calls[p].pc = "done" /\ calls[q].pc = "done"
    /\ calls[p].key = calls[q].key
    /\ calls[p].missed /\ calls[q].missed

\* C14: when two drawFromCache activations for one key both look the key up
\* before either has stored it, both run their callback (two renders, two
\* canvases) and the map ends with one entry for the key: the canvas of the
\* activation that executed cacheMap.set second.
C14_SecondWriteWins ==
    \A p \in Callers, q \in Callers :
        (BothMissed(p, q) /\ calls[p].setOrder > calls[q].setOrder)
        => /\ renders[calls[p].key] = 2
           /\ calls[p].canvas.uid # calls[q].canvas.uid
           /\ calls[p].key \in DOMAIN cacheMap
           /\ cacheMap[calls[p].key] = calls[p].canvas
           /\ cacheMap[calls[p].key] # calls[q].canvas

\* Caller c1 looked up and rendered first, caller c2 stored first.
C14_Witness ==
    /\ BothMissed("c1", "c2")
    /\ calls["c1"].canvas.uid < calls["c2"].canvas.uid
    /\ calls["c1"].setOrder > calls["c2"].setOrder

\* C30: after any sequence of drawFromCache calls, nested renders included,
\* the insertion queue holds no key twice and its keys are exactly the keys
\* of the map; a key evicted from the queue is gone from the map too.
C30_QueueMatchesMap ==
    /\ Cardinality(Range(cache)) = Len(cache)
    /\ Range(cache) = DOMAIN cacheMap

\* A button group rendered into a full cache: its nested renders and its own
\* store pushed three keys, and the keys they evicted are in neither the queue
\* nor the map.
C30_Witness ==
    /\ last.fn = "drawButtonGroupWidget"
    /\ Len(StoredSeq(last.log)) = 3
    /\ Cardinality(KeysOf(last.log, "evict")) = 3
    /\ KeysOf(last.log, "evict") \cap (Range(cache) \cup DOMAIN cacheMap) = {}

-----------------------------------------------------------------------------
(* Properties of the primitive renderers *)

\* Border size and radius of the style of the logged call (0 when absent).
BorderOf(call) == OrZero(styleGetBorderSize(styles, styles[call.args.style]))
RadiusOf(call) == OrZero(styleGetBorderRadius(styles, styles[call.args.style]))
\* A style property of the style of the logged call.
StyleProp(call, name) == getStyleProperty(styles, styles[call.args.style], name)
\* The fillRect of that colour, rectangle and radius.
FillOp(color, x1, y1, x2, y2, r) ==
    [op |-> "fillRect", color |-> color, x1 |-> x1, y1 |-> y1, x2 |-> x2, y2 |-> y2, r |-> r]
BorderedRenderers ==
    {"drawText", "drawMultilineText", "drawBitmap", "drawRectangle", "drawYTGraphWidget",
     "drawListGraphWidget"}

\* C15: on the W x H canvas of each bordered renderer, with border size B and
\* radius R: if B > 0 the first paint is the border colour over
\* [0,W-1] x [0,H-1] with radius R and the fill that follows covers
\* [B,W-1-B] x [B,H-1-B] with radius max(R - B, 0); if B is 0 or absent the
\* first paint is the fill over the full rectangle with radius R.
C15_BorderGeometry ==
    (last.fn \in BorderedRenderers /\ last.canvas # UndefinedCanvas)
    => IF BorderOf(last) > 0
       THEN /\ last.canvas.ops[1]
                 = FillOp(Colour(StyleProp(last, "borderColor")), 0, 0,
                          last.canvas.w - 1, last.canvas.h - 1, RadiusOf(last))
            /\ [last.canvas.ops[2] EXCEPT !.color = ""]
                 = FillOp("", BorderOf(last), BorderOf(last),
                          last.canvas.w - 1 - BorderOf(last), last.canvas.h - 1 - BorderOf(last),
                          Max(RadiusOf(last) - BorderOf(last), 0))
       ELSE [last.canvas.ops[1] EXCEPT !.color = ""]
              = FillOp("", 0, 0, last.canvas.w - 1, last.canvas.h - 1, RadiusOf(last))

\* A bitmap drawn in the style whose radius is smaller than its border.
C15_Witness ==
    /\ last.fn = "drawBitmap"
    /\ last.canvas # UndefinedCanvas
    /\ BorderOf(last) > RadiusOf(last)
    /\ RadiusOf(last) > 0

\* The drawStr paints of a canvas.
StrOps(canvas) == SelectSeq(canvas.ops, LAMBDA o : o.op = "drawStr")
\* The call rendered (it was no hit) and returned its canvas.
Rendered(call) ==
    call.log # <<>> /\ TopEvent(call).ev = "render" /\ call.canvas # UndefinedCanvas
\* The font of the style of the logged call, and what lcd.measureStr returns
\* for its text within maxWidth.
FontOf(call) == styleGetFont(styles, styles[call.args.style])[1]
TextWidth(call, maxWidth) == measureStr(unescapeText(call.args.text), FontOf(call), maxWidth)

\* C16: drawText draws the glyph run inside the inset rectangle: with border
\* size B on a W x H canvas, the left edge x and the right edge x + width - 1
\* lie in [B, W-B), the top y and the bottom y + font.height - 1 in [B, H-B).
C16_TextInsideInset ==
    (last.fn = "drawText" /\ last.canvas # UndefinedCanvas)
    => \A i \in DOMAIN StrOps(last.canvas) :
         /\ BorderOf(last) <= StrOps(last.canvas)[i].x
         /\ StrOps(last.canvas)[i].x
              + TextWidth(last, last.canvas.w - 2 * BorderOf(last)) - 1
              < last.canvas.w - BorderOf(last)
         /\ BorderOf(last) <= StrOps(last.canvas)[i].y
         /\ StrOps(last.canvas)[i].y + FontOf(last).height - 1
              < last.canvas.h - BorderOf(last)

\* Whether the style of the logged call has that alignment value.
Aligned(call, name, value) == StyleProp(call, name) = Some(value)

\* C17: drawText places the glyph run, of measured width wd, in the inset
\* [x1,x2] x [y1,y2] at x = x1 + p when alignHorizontal is "left", x2 - p - wd
\* when "right", floor(x1 + (x2 - x1 + 1 - wd) / 2) otherwise, and at y by the
\* same rule with "top", "bottom", paddingVertical and the font height.
C17_TextAlignment ==
    (last.fn = "drawText" /\ last.canvas # UndefinedCanvas)
    => LET B == BorderOf(last)
           x1 == B
           x2 == last.canvas.w - 1 - B
           y1 == B
           y2 == last.canvas.h - 1 - B
           wd == TextWidth(last, x2 - x1 + 1)
           ht == FontOf(last).height
       IN /\ Len(StrOps(last.canvas)) = 1
          /\ StrOps(last.canvas)[1].x
               = IF Aligned(last, "alignHorizontal", "left")
                 THEN x1 + StyleProp(last, "paddingHorizontal")[1]
                 ELSE IF Aligned(last, "alignHorizontal", "right")
                 THEN x2 - StyleProp(last, "paddingHorizontal")[1] - wd
                 ELSE (2 * x1 + (x2 - x1 + 1) - wd) \div 2
          /\ StrOps(last.canvas)[1].y
               = IF Aligned(last, "alignVertical", "top")
                 THEN y1 + StyleProp(last, "paddingVertical")[1]
                 ELSE IF Aligned(last, "alignVertical", "bottom")
                 THEN y2 - StyleProp(last, "paddingVertical")[1] - ht
                 ELSE (2 * y1 + (y2 - y1 + 1) - ht) \div 2

\* Text drawn right- and bottom-aligned in the narrow box, where the centred
\* rule would give another position.
C17_Witness ==
    /\ last.fn = "drawText"
    /\ last.canvas # UndefinedCanvas
    /\ Aligned(last, "alignHorizontal", "right")
    /\ Aligned(last, "alignVertical", "bottom")
    /\ last.canvas.w = NarrowBox.width
    /\ StrOps(last.canvas) # <<>>

\* C18: drawRectangle fills the inset interior with the style's background
\* colour when inverse = false and with its foreground colour when inverse =
\* true (10 x 6, border 1, black on white: [1,1]-[8,4] is filled white).
C18_RectangleFill ==
    (last.fn = "drawRectangle" /\ last.canvas # UndefinedCanvas)
    => BackgroundFill(last.canvas)
         = IF last.args.inverse
           THEN Colour(StyleProp(last, "color"))
           ELSE Colour(StyleProp(last, "backgroundColor"))

\* The background of the logged text call: the override when one was passed.
TextBackground(call) ==
    IF "overrideBackgroundColor" \in DOMAIN call.args /\ call.args.overrideBackgroundColor # None
    THEN call.args.overrideBackgroundColor[1]
    ELSE Colour(StyleProp(call, "backgroundColor"))

\* C19: in the render of drawText and of drawMultilineText, inverse = false
\* fills the inset with the background colour (or the override) and draws the
\* text with pen = color and back = background; inverse = true swaps the two
\* colours in both steps.
C19_Inversion ==
    (last.fn \in {"drawText", "drawMultilineText"} /\ Rendered(last))
    => /\ BackgroundFill(last.canvas)
            = IF last.args.inverse THEN Colour(StyleProp(last, "color"))
              ELSE TextBackground(last)
       /\ \A i \in DOMAIN StrOps(last.canvas) :
            /\ StrOps(last.canvas)[i].color
                 = IF last.args.inverse THEN TextBackground(last)
                   ELSE Colour(StyleProp(last, "color"))
            /\ StrOps(last.canvas)[i].backColor
                 = IF last.args.inverse THEN Colour(StyleProp(last, "color"))
                   ELSE TextBackground(last)

\* An inverse drawText with an override, and an inverse drawMultilineText that
\* drew two words.
C19_Witness ==
    /\ Rendered(last)
    /\ last.args.inverse
    /\ \/ last.fn = "drawText" /\ last.args.overrideBackgroundColor # None
          /\ Len(StrOps(last.canvas)) = 1
       \/ last.fn = "drawMultilineText" /\ Len(StrOps(last.canvas)) = 2

\* The text has no line break and its words are separated by one space.
SingleSpaced(text) ==
    \A i \in 0..(Len(text) - 1) :
        /\ CharAt(text, i) # "\n"
        /\ CharAt(text, i) = " " => (0 < i /\ i + 1 < Len(text) /\ CharAt(text, i + 1) # " ")

\* The words of the drawStr paints from the i-th on, joined by one space.
RECURSIVE JoinedFrom(_, _)
JoinedFrom(ops, i) ==
    IF i > Len(ops) THEN ""
    ELSE IF i = Len(ops) THEN ops[i].text
    ELSE ops[i].text \o " " \o JoinedFrom(ops, i + 1)

\* The width lcd.measureStr returns for a word of the logged call.
WordWidth(call, word) == measureStr(word, FontOf(call), 0)

\* The word painted by next follows the word painted by prev in the padded
\* inset [x1, x2]: on the same line one space further when it fits in what
\* is left of the line, at x1 one line height below otherwise.
Follows(call, prev, next, x1, x2, height) ==
    IF WordWidth(call, next.text)
         <= x2 - (prev.x + WordWidth(call, prev.text) + GlyphDx(FontOf(call), " ")) + 1
    THEN /\ next.x = prev.x + WordWidth(call, prev.text) + GlyphDx(FontOf(call), " ")
         /\ next.y = prev.y
    ELSE /\ next.x = x1
         /\ next.y = prev.y + height

\* The words drawStr painted lie in [x1, x2], each follows the one before,
\* and they are the first words of the text in its order.
WordsLaidOut(call, ops, x1, x2, height) ==
    /\ \A i \in DOMAIN ops :
         x1 <= ops[i].x /\ ops[i].x + WordWidth(call, ops[i].text) - 1 <= x2
    /\ \A i \in 1..(Len(ops) - 1) : Follows(call, ops[i], ops[i + 1], x1, x2, height)
    /\ JoinedFrom(ops, 1)
         = SubSeq(unescapeText(call.args.text), 1, Len(JoinedFrom(ops, 1)))

\* C20: in drawMultilineText every drawn word lies inside the padded inset
\* [x1, x2]; a word that does not fit in the rest of the current line but fits
\* in the inset width is drawn at x1 exactly floor(0.9 * font.height) below
\* the line; the words are drawn in text order.
C20_WordWrap ==
    (/\ last.fn = "drawMultilineText"
     /\ last.canvas # UndefinedCanvas
     /\ SingleSpaced(unescapeText(last.args.text)))
    => WordsLaidOut(last, StrOps(last.canvas),
                    BorderOf(last) + StyleProp(last, "paddingHorizontal")[1],
                    last.canvas.w - 1 - BorderOf(last) - StyleProp(last, "paddingHorizontal")[1],
                    (9 * FontOf(last).height) \div 10)

\* The second word was wrapped: it is at the left edge, one line height (7)
\* below the first.
C20_Witness ==
    /\ last.fn = "drawMultilineText"
    /\ last.canvas # UndefinedCanvas
    /\ Len(StrOps(last.canvas)) = 2
    /\ StrOps(last.canvas)[2].x = StrOps(last.canvas)[1].x
    /\ StrOps(last.canvas)[2].y = StrOps(last.canvas)[1].y + 7

\* The words of the text as drawMultilineText scans them from character i
\* on (part_000:282-287, 315-331): [text, paragraph], paragraph being TRUE for
\* a word that follows a line break.
RECURSIVE WordsFrom(_, _, _)
WordsFrom(text, i, paragraph) ==
    LET sp == skipSpaces(text, wordEnd(text, i), 0, 0)
        word == [text |-> Substr(text, i, wordEnd(text, i) - i), paragraph |-> paragraph]
    IN IF sp.i >= Len(text) THEN <<word>>
       ELSE IF CharAt(text, sp.i) = "\n" THEN <<word>> \o WordsFrom(text, sp.i + 1, TRUE)
       ELSE <<word>> \o WordsFrom(text, sp.i, FALSE)

\* The words drawStr painted are the first words of the text, each on a line
\* that ends at or above y2, and each first word of a paragraph is at x1, a
\* line height and the extra height below the word before it.
Truncated(ops, words, x1, y2, height) ==
    /\ Len(ops) <= Len(words)
    /\ \A i \in DOMAIN ops :
         /\ ops[i].text = words[i].text
         /\ ops[i].y + height <= y2
         /\ (i > 1 /\ words[i].paragraph)
              => /\ ops[i].x = x1
                 /\ ops[i].y = ops[i - 1].y + height + (2 * height) \div 10

\* C21: drawMultilineText truncates silently: every drawn word is drawn at a
\* y with y + lineHeight <= y2, no word after a skipped word is drawn, and a
\* line break advances y by lineHeight + floor(0.2 * lineHeight) and puts x
\* back to x1.
C21_VerticalTruncation ==
    (last.fn = "drawMultilineText" /\ last.canvas # UndefinedCanvas)
    => Truncated(StrOps(last.canvas),
                 WordsFrom(unescapeText(last.args.text), 0, FALSE),
                 BorderOf(last) + StyleProp(last, "paddingHorizontal")[1],
                 last.canvas.h - 1 - BorderOf(last) - StyleProp(last, "paddingVertical")[1],
                 (9 * FontOf(last).height) \div 10)

\* Of four words two were drawn, the second one as the start of a paragraph
\* at y = 7 + 1; the third did not fit above y2 and the fourth, which would
\* have, was not drawn either.
C21_Witness ==
    /\ last.fn = "drawMultilineText"
    /\ last.canvas # UndefinedCanvas
    /\ Len(WordsFrom(unescapeText(last.args.text), 0, FALSE)) = 4
    /\ Len(StrOps(last.canvas)) = 2
    /\ StrOps(last.canvas)[2].y = 8

\* The lcd.drawBitmap paints of a canvas.
BitmapOps(canvas) == SelectSeq(canvas.ops, LAMBDA o : o.op = "drawBitmap")
\* The free columns (rows) before and after a run of that length starting at
\* offset in [lo, hi] differ by at most 1.
Centred(offset, length, lo, hi) ==
    /\ (offset - lo) - (hi - (offset + length - 1)) <= 1
    /\ (hi - (offset + length - 1)) - (offset - lo) <= 1

\* C25: drawBitmap with neither left nor right alignment centres an image
\* no wider than the inset rectangle: the free columns to its left and to its
\* right inside [x1, x2] differ by at most 1, and likewise the free rows
\* above and below it when the alignment is neither top nor bottom.
C25_BitmapCentred ==
    (last.fn = "drawBitmap" /\ last.canvas # UndefinedCanvas)
    => \A i \in DOMAIN BitmapOps(last.canvas) :
         /\ (/\ ~Aligned(last, "alignHorizontal", "left")
             /\ ~Aligned(last, "alignHorizontal", "right")
             /\ BitmapOps(last.canvas)[i].width <= last.canvas.w - 2 * BorderOf(last))
            => Centred(BitmapOps(last.canvas)[i].x, BitmapOps(last.canvas)[i].width,
                       BorderOf(last), last.canvas.w - 1 - BorderOf(last))
         /\ (/\ ~Aligned(last, "alignVertical", "top")
             /\ ~Aligned(last, "alignVertical", "bottom")
             /\ BitmapOps(last.canvas)[i].height <= last.canvas.h - 2 * BorderOf(last))
            => Centred(BitmapOps(last.canvas)[i].y, BitmapOps(last.canvas)[i].height,
                       BorderOf(last), last.canvas.h - 1 - BorderOf(last))

-----------------------------------------------------------------------------
(* Properties of the bar graph widget *)

\* The fillRect paints of the bar (the first two paints of the canvas).
BarFills(canvas) == SelectSeq(canvas.ops, LAMBDA o : o.op = "fillRect")
\* The extent d of the logged bar graph call along its orientation.
BarExtent(call) ==
    IF call.args.b.orientation \in {"left-right", "right-left"}
    THEN call.args.rect.width ELSE call.args.rect.height
\* The position calcPos returned for the value, read from where the second
\* fill of the bar starts (part_000:856-876).
BarPos(call) ==
    CASE call.args.b.orientation = "left-right" -> BarFills(call.canvas)[2].x1
      [] call.args.b.orientation = "right-left" ->
            JsSub(call.args.rect.width, BarFills(call.canvas)[2].x1)
      [] call.args.b.orientation = "top-bottom" -> BarFills(call.canvas)[2].y1
      [] OTHER -> JsSub(call.args.rect.height, BarFills(call.canvas)[2].y1)
\* The call was drawBarGraphWidget and it returned its canvas.
BarDrawn(call) == call.fn = "drawBarGraphWidget" /\ call.canvas # UndefinedCanvas

\* C22: the filled position of drawBarGraphWidget is an integer in [0, d]
\* for every value, min and max, the defaults min = max = 0 included.
C22_PosInRange ==
    BarDrawn(last) => (BarPos(last) # NaN /\ 0 <= BarPos(last) /\ BarPos(last) <= BarExtent(last))

\* C23: for max > min and min <= value <= max the filled position is
\* round((value - min) * d / (max - min)): 0 at value = min, d at value = max.
C23_Normalized ==
    (/\ BarDrawn(last)
     /\ last.args.b.max > last.args.b.min
     /\ last.args.b.min <= last.args.b.value
     /\ last.args.b.value <= last.args.b.max)
    => BarPos(last)
         = (2 * (last.args.b.value - last.args.b.min) * BarExtent(last)
              + (last.args.b.max - last.args.b.min))
           \div (2 * (last.args.b.max - last.args.b.min))

\* C26: each threshold line of drawBarGraphWidget is inside the widget: a
\* vertical line at an x in [0, rect.width - 1], a horizontal line at a y in
\* [0, rect.height - 1].
C26_LinesInside ==
    BarDrawn(last)
    => \A i \in DOMAIN last.canvas.ops :
         /\ last.canvas.ops[i].op = "drawVLine"
              => /\ last.canvas.ops[i].x # NaN
                 /\ 0 <= last.canvas.ops[i].x
                 /\ last.canvas.ops[i].x <= last.args.rect.width - 1
         /\ last.canvas.ops[i].op = "drawHLine"
              => /\ last.canvas.ops[i].y # NaN
                 /\ 0 <= last.canvas.ops[i].y
                 /\ last.canvas.ops[i].y <= last.args.rect.height - 1

-----------------------------------------------------------------------------
(* Properties of the button group widget *)

\* The drawImage paints of a canvas.
ImageOps(canvas) == SelectSeq(canvas.ops, LAMBDA o : o.op = "drawImage")
\* The call was drawButtonGroupWidget with at least one label and it returned
\* its canvas.
ButtonsDrawn(call) ==
    /\ call.fn = "drawButtonGroupWidget"
    /\ call.canvas # UndefinedCanvas
    /\ Len(call.args.buttonLabels) >= 1
\* The canvas drawText keeps for the i-th label (from 1) at size bw x bh,
\* inverse when i - 1 is the selected value.
LabelCanvas(call, i, bw, bh) ==
    MapGet(cacheMap, "drawText." \o textCacheKey(styles, call.args.buttonLabels[i], bw, bh,
                                                 styles[call.args.style],
                                                 i - 1 = call.args.selectedButton))
\* The i-th image of the group is that canvas, bw x bh, drawn at (x, y).
ButtonAt(call, i, x, y, bw, bh) ==
    /\ LabelCanvas(call, i, bw, bh) # UndefinedCanvas
    /\ LabelCanvas(call, i, bw, bh).w = bw
    /\ LabelCanvas(call, i, bw, bh).h = bh
    /\ ImageOps(call.canvas)[i]
         = [op |-> "drawImage", src |-> LabelCanvas(call, i, bw, bh).uid, x |-> x, y |-> y]
\* n buttons of width bw and the height of the widget, side by side from
\* x = floor((w - n * bw) / 2), inside [0, w).
ButtonRow(call, n, w, bw) ==
    /\ Len(ImageOps(call.canvas)) = n
    /\ 0 <= (w - n * bw) \div 2
    /\ (w - n * bw) \div 2 + n * bw <= w
    /\ \A i \in 1..n :
         ButtonAt(call, i, (w - n * bw) \div 2 + (i - 1) * bw, 0, bw, call.args.rect.height)
\* n buttons of the width of the widget and of height bh, one in each cell
\* of height pitch from y = floor((h - n * pitch) / 2), at yOffset in its
\* cell, inside [0, h).
ButtonColumn(call, n, h, pitch, bh, yOffset) ==
    /\ Len(ImageOps(call.canvas)) = n
    /\ 0 <= (h - n * pitch) \div 2
    /\ (h - n * pitch) \div 2 + n * pitch <= h
    /\ \A i \in 1..n :
         ButtonAt(call, i, 0, (h - n * pitch) \div 2 + (i - 1) * pitch + yOffset,
                  call.args.rect.width, bh)
\* The button height of the vertical orientation.
LabelHeight(call) ==
    Min(call.args.rect.width, call.args.rect.height \div Len(call.args.buttonLabels))

\* C24 as stated: the group is horizontal iff rect.width > rect.height; its
\* N buttons have width floor(w / N), start at floor((w - N * floor(w / N)) / 2)
\* and are adjacent inside [0, w); the vertical orientation obeys the same
\* rule along the height (buttons of height floor(h / N)); the button whose
\* index is the selected value is the inverse one.
C24_ButtonLayout ==
    ButtonsDrawn(last)
    => IF last.args.rect.width > last.args.rect.height
       THEN ButtonRow(last, Len(last.args.buttonLabels), last.args.rect.width,
                      last.args.rect.width \div Len(last.args.buttonLabels))
       ELSE ButtonColumn(last, Len(last.args.buttonLabels), last.args.rect.height,
                         last.args.rect.height \div Len(last.args.buttonLabels),
                         last.args.rect.height \div Len(last.args.buttonLabels), 0)

\* C24, amended: as above, except that in the vertical orientation a button
\* has height min(w, floor(h / N)) and is centred in its cell of pitch
\* floor(h / N), i.e. drawn floor((pitch - height) / 2) below the cell's top.
C24_ButtonLayoutCentred ==
    ButtonsDrawn(last)
    => IF last.args.rect.width > last.args.rect.height
       THEN ButtonRow(last, Len(last.args.buttonLabels), last.args.rect.width,
                      last.args.rect.width \div Len(last.args.buttonLabels))
       ELSE ButtonColumn(last, Len(last.args.buttonLabels), last.args.rect.height,
                         last.args.rect.height \div Len(last.args.buttonLabels),
                         LabelHeight(last),
                         (last.args.rect.height \div Len(last.args.buttonLabels)
                            - LabelHeight(last)) \div 2)

\* Three buttons, the second selected, in a column whose buttons are lower
\* than their cells (2 against 3) and which starts below the top (11 = 3 * 3 + 2).
C24_Witness ==
    /\ ButtonsDrawn(last)
    /\ Len(last.args.buttonLabels) = 3
    /\ last.args.selectedButton = 1
    /\ last.args.rect = Rect(2, 11)
    /\ ImageOps(last.canvas)[1].y = 1
    /\ LabelHeight(last) = 2

-----------------------------------------------------------------------------
(* Properties of the project editor *)

\* C27: after any sequence of extension registrations and reads of
\* Project.classInfo, the properties returned are "settings" followed by
\* exactly one property per registered project feature, also after the
\* number of features has changed more than once.
C27_OnePropertyPerFeature ==
    classInfoRead # None
    => classInfoRead[1].properties = <<"settings">> \o classInfoRead[1].features

\* The member at index i (from 0) of the last check has the name of a member
\* at an earlier index.
HasEarlierTwin(arr, i) == \E j \in 0..(i - 1) : arr[j + 1] = arr[i + 1]

\* C28: ScpiEnumMember.check reports "Member name ... is not unique" for a
\* member with a non-empty name iff a member at an earlier index has the same
\* name; a member with an empty name gets only the not-set message.
C28_DuplicateFlagged ==
    messages # None
    => IF members[messages[1].this + 1] = ""
       THEN messages[1].messages = <<"name not set">>
       ELSE (messages[1].messages # <<>>) <=> HasEarlierTwin(members, messages[1].this)

\* C29: the promise load returned eventually settles, whatever the read gives.
C29_LoadSettles ==
    \A filePath \in FilePaths :
        (loads[filePath].promise = "pending")
            ~> (loads[filePath].promise \in {"resolved", "rejected"})

=============================================================================
